---- MODULE Spec2Model ----
(***************************************************************************)
(* Model of dipcoin-amm-client-ts: the SwapMath engine                     *)
(* (src/unnamed/part_001, lines 156-430), the type order of utils.ts, the  *)
(* transaction builders and coin selection of sdk.ts, and the init         *)
(* functions of config.  Four specifications share the variables: Spec     *)
(* calls the engine, PoolSpec swaps on a pool, SdkSpec calls the SDK and   *)
(* its utilities with the responses of the Sui client as inputs, and       *)
(* ConfigSpec runs the init functions.                                     *)
(*                                                                         *)
(* SwapMath computes on bignumber.js values.  The module never calls       *)
(* BigNumber.config, so the library runs with its defaults:                *)
(* DECIMAL_PLACES = 20 and ROUNDING_MODE = ROUND_HALF_UP.  dividedBy and   *)
(* sqrt round their result to 20 decimal places, half up; multipliedBy,    *)
(* plus and minus are exact; integerValue(ROUND_DOWN) truncates toward     *)
(* zero.  A division by zero gives Infinity (NaN for 0/0), not an error.   *)
(*                                                                         *)
(* TLC's integers are 32 bits wide and the engine works on 64-bit amounts  *)
(* and their products, so magnitudes are kept as sequences of base-10^4    *)
(* limbs, least significant first, without leading zero limbs (<<>> is 0). *)
(* TLC evaluates on a small stack, so the limb arithmetic avoids deep       *)
(* recursion: carries are looked ahead instead of rippled, and the only    *)
(* loops are the steps of long division and of Newton's iteration.         *)
(***************************************************************************)
EXTENDS Integers, Sequences, FiniteSets, TLC

-----------------------------------------------------------------------------
(* Natural numbers of any size: limb sequences.  A value that an operator   *)
(* needs more than once is handed to a helper as a parameter.               *)

Base == 10^4

Max(S) == CHOOSE m \in S : \A k \in S : k <= m

RECURSIVE LimbsOf(_)
LimbsOf(n) ==
    IF n = 0 THEN <<>> ELSE <<n % Base>> \o LimbsOf(n \div Base)

Trim(s, nz) == IF nz = {} THEN <<>> ELSE SubSeq(s, 1, Max(nz))

BigNorm(s) == Trim(s, {i \in 1..Len(s) : s[i] # 0})

\* Groups(<<1844, 6744, 737, 955, 1615>>) is 18446744073709551615.
Groups(g) == BigNorm([i \in 1..Len(g) |-> g[Len(g) + 1 - i]])

Limb(a, i) == IF i <= Len(a) THEN a[i] ELSE 0

CmpLimb(a, b, i) == IF a[i] < b[i] THEN -1 ELSE 1

CmpAt(a, b, diff) == IF diff = {} THEN 0 ELSE CmpLimb(a, b, Max(diff))

BigCmp(a, b) ==
    IF Len(a) < Len(b) THEN -1
    ELSE IF Len(a) > Len(b) THEN 1
    ELSE CmpAt(a, b, {i \in 1..Len(a) : a[i] # b[i]})

BigLe(a, b) == BigCmp(a, b) <= 0

BigLt(a, b) == BigCmp(a, b) < 0

\* The carry into limb i of the limb sums s: the nearest lower limb that is
\* not Base - 1 decides it.
Carry(s, low) == IF low # {} /\ s[Max(low)] >= Base THEN 1 ELSE 0

CarryInto(s, i) == Carry(s, {j \in 1..(i - 1) : s[j] # Base - 1})

Carried(s, i, c) == IF i <= Len(s) THEN (s[i] + c) % Base ELSE c

Propagate(s) ==
    BigNorm([i \in 1..(Len(s) + 1) |-> Carried(s, i, CarryInto(s, i))])

LongerLen(a, b) == IF Len(a) > Len(b) THEN Len(a) ELSE Len(b)

BigAdd(a, b) ==
    Propagate([i \in 1..LongerLen(a, b) |-> Limb(a, i) + Limb(b, i)])

\* The borrow out of the limbs below i of the limb differences d.
Borrow(d, low) == IF low # {} /\ d[Max(low)] < 0 THEN 1 ELSE 0

BorrowInto(d, i) == Borrow(d, {j \in 1..(i - 1) : d[j] # 0})

Settle(d) ==
    BigNorm([i \in 1..Len(d) |-> (d[i] + Base - BorrowInto(d, i)) % Base])

\* a - b, for a >= b.
BigSub(a, b) == Settle([i \in 1..Len(a) |-> a[i] - Limb(b, i)])

\* a * Base^n and floor(a / Base^n).
BigShl(a, n) == IF a = <<>> THEN <<>> ELSE [i \in 1..n |-> 0] \o a

BigShr(a, n) == IF Len(a) <= n THEN <<>> ELSE SubSeq(a, n + 1, Len(a))

\* a * k for a native 0 <= k < Base.
BigMulSmall(a, k) ==
    IF k = 0 \/ a = <<>> THEN <<>>
    ELSE BigAdd([i \in 1..Len(a) |-> (a[i] * k) % Base],
                <<0>> \o [i \in 1..Len(a) |-> (a[i] * k) \div Base])

\* The sum of a[i] * b[k + 1 - i] for i in lo..hi: column k of the product.
RECURSIVE Column(_, _, _, _, _)
Column(a, b, k, i, hi) ==
    IF i > hi THEN 0 ELSE a[i] * b[k + 1 - i] + Column(a, b, k, i + 1, hi)

ColumnLo(b, k) == IF k > Len(b) THEN k + 1 - Len(b) ELSE 1

ColumnHi(a, k) == IF k < Len(a) THEN k ELSE Len(a)

SumColumns(col) ==
    BigAdd(BigAdd([k \in 1..Len(col) |-> col[k] % Base],
                  <<0>> \o [k \in 1..Len(col) |-> (col[k] \div Base) % Base]),
           <<0, 0>> \o [k \in 1..Len(col) |-> col[k] \div (Base * Base)])

BigMul(a, b) ==
    IF a = <<>> \/ b = <<>> THEN <<>>
    ELSE SumColumns([k \in 1..(Len(a) + Len(b) - 1) |->
                        Column(a, b, k, ColumnLo(b, k), ColumnHi(a, k))])

\* floor(a / k) for a native 0 < k < Base.
RECURSIVE ShortDivFrom(_, _, _, _, _)
ShortDivFrom(a, k, i, rem, q) ==
    IF i = 0 THEN BigNorm(q)
    ELSE ShortDivFrom(a, k, i - 1, (rem * Base + a[i]) % k,
                      <<(rem * Base + a[i]) \div k>> \o q)

ShortDiv(a, k) == ShortDivFrom(a, k, Len(a), 0, <<>>)

(* Long division, one quotient limb at a time.  The divisor b is scaled so *)
(* that its top limb is at least Base / 2: the estimate of a quotient limb *)
(* from the top limbs is then at most 2 too large.                         *)

EstimateOf(rtop, btop) ==
    IF rtop \div btop < Base - 1 THEN rtop \div btop ELSE Base - 1

Estimate(r, b) ==
    EstimateOf(Limb(r, Len(b) + 1) * Base + Limb(r, Len(b)), b[Len(b)])

\* <<quotient limb, remainder>> of r by b from the estimate est, p = est * b.
RECURSIVE Correct(_, _, _, _)
Correct(r, b, est, p) ==
    IF BigLe(p, r) THEN <<est, BigSub(r, p)>>
    ELSE Correct(r, b, est - 1, BigSub(p, b))

QuotientLimb(r, b, est) == Correct(r, b, est, BigMulSmall(b, est))

DivStep(r, b) == QuotientLimb(r, b, Estimate(r, b))

RECURSIVE DivFrom(_, _, _, _, _)
DivPush(a, b, i, q, step) ==
    IF Len(step) = 2 THEN DivFrom(a, b, i - 1, <<step[1]>> \o q, step[2])
    ELSE <<>>

DivFrom(a, b, i, q, r) ==
    IF i = 0 THEN <<BigNorm(q), r>>
    ELSE DivPush(a, b, i, q, DivStep(BigNorm(<<a[i]>> \o r), b))

DivFromLimb(a, b, i) == DivFrom(a, b, i, <<>>, BigShr(a, i))

\* <<floor(a / b), a mod b>> for b with a top limb of at least Base / 2.
DivScaled(a, b) ==
    IF BigLt(a, b) THEN <<<<>>, a>>
    ELSE DivFromLimb(a, b, Len(a) - Len(b) + 1)

Scale(b) == Base \div (b[Len(b)] + 1)

Unscale(qr, f) == <<qr[1], ShortDiv(qr[2], f)>>

\* <<floor(a / b), a mod b>>, for b > 0.
BigDivMod(a, b) ==
    Unscale(DivScaled(BigMulSmall(a, Scale(b)), BigMulSmall(b, Scale(b))),
            Scale(b))

\* floor(sqrt(t)) for a native t < Base^2, by bisection between lo and hi.
RECURSIVE SmallSqrt(_, _, _)
SmallSqrt(t, lo, hi) ==
    IF lo >= hi THEN lo
    ELSE IF ((lo + hi + 1) \div 2) * ((lo + hi + 1) \div 2) <= t
         THEN SmallSqrt(t, (lo + hi + 1) \div 2, hi)
         ELSE SmallSqrt(t, lo, (lo + hi + 1) \div 2 - 1)

\* Newton's iteration from an x above the root: it decreases to the floor.
RECURSIVE SqrtFrom(_, _)
SqrtStep(a, x, y) == IF BigLt(y, x) THEN SqrtFrom(a, y) ELSE x

SqrtFrom(a, x) ==
    SqrtStep(a, x, ShortDiv(BigAdd(x, BigDivMod(a, x)[1]), 2))

TopLimbs(a) ==
    IF Len(a) % 2 = 0 THEN a[Len(a)] * Base + a[Len(a) - 1] ELSE a[Len(a)]

\* floor(sqrt(a)).
BigSqrt(a) ==
    IF a = <<>> THEN <<>>
    ELSE SqrtFrom(a, BigShl(LimbsOf(SmallSqrt(TopLimbs(a), 0, Base - 1) + 1),
                            (Len(a) - 1) \div 2))

-----------------------------------------------------------------------------
(* bignumber.js values.  A finite value is neg * m / 10^dp with m a limb    *)
(* sequence; dp is 0 for an integer and DECIMAL_PLACES for the result of a  *)
(* division or a square root.  Zero is kept unsigned: no divisor of the     *)
(* engine can be -0 for non-negative inputs.                                *)

DECIMAL_PLACES == 20

\* 10^DECIMAL_PLACES is Base^DpLimbs.
DpLimbs == DECIMAL_PLACES \div 4

Fin(neg, m, dp) ==
    [k |-> "num", neg |-> neg /\ m # <<>>, m |-> m, dp |-> dp]

Infinity(neg) == [k |-> "inf", neg |-> neg, m |-> <<>>, dp |-> 0]

NaN == [k |-> "nan", neg |-> FALSE, m |-> <<>>, dp |-> 0]

\* new BigNumber(n) for a native n >= 0, and for a number written in groups
\* of four decimal digits.
BN(n) == Fin(FALSE, LimbsOf(n), 0)

BNG(g) == Fin(FALSE, Groups(g), 0)

\* The magnitude of x in units of 10^-dp, for dp >= x.dp.
Units(x, dp) == BigShl(x.m, (dp - x.dp) \div 4)

MaxDp(x, y) == IF x.dp > y.dp THEN x.dp ELSE y.dp

isZero(x) == x.k = "num" /\ x.m = <<>>

isNaN(x) == x.k = "nan"

isFinite(x) == x.k = "num"

isInteger(x) ==
    x.k = "num" /\ BigShl(BigShr(x.m, x.dp \div 4), x.dp \div 4) = x.m

isNegative(x) == x.neg

\* -1, 0, 1 as |x| < |y|, |x| = |y|, |x| > |y|.
CompareAbs(x, y) ==
    IF x.k = "inf" /\ y.k = "inf" THEN 0
    ELSE IF x.k = "inf" THEN 1
    ELSE IF y.k = "inf" THEN -1
    ELSE BigCmp(Units(x, MaxDp(x, y)), Units(y, MaxDp(x, y)))

\* -1, 0, 1 as x < y, x = y, x > y, for x and y other than NaN.
Compare(x, y) ==
    IF x.neg /\ ~y.neg THEN -1
    ELSE IF ~x.neg /\ y.neg THEN 1
    ELSE IF x.neg THEN -CompareAbs(x, y) ELSE CompareAbs(x, y)

Ordered(x, y, signs) == ~isNaN(x) /\ ~isNaN(y) /\ Compare(x, y) \in signs

isGreaterThanOrEqualTo(x, y) == Ordered(x, y, {0, 1})

isGreaterThan(x, y) == Ordered(x, y, {1})

isLessThan(x, y) == Ordered(x, y, {-1})

isLessThanOrEqualTo(x, y) == Ordered(x, y, {-1, 0})

isEqualTo(x, y) == Ordered(x, y, {0})

negated(x) ==
    IF x.k = "nan" THEN NaN ELSE [x EXCEPT !.neg = ~x.neg /\ ~isZero(x)]

\* The sum of two finite values given by sign and magnitude in units of
\* 10^-dp.
AddSigned(xneg, a, yneg, b, dp) ==
    IF xneg = yneg THEN Fin(xneg, BigAdd(a, b), dp)
    ELSE IF BigLe(b, a) THEN Fin(xneg, BigSub(a, b), dp)
    ELSE Fin(yneg, BigSub(b, a), dp)

\* x + y, exact.
plus(x, y) ==
    IF isNaN(x) \/ isNaN(y) THEN NaN
    ELSE IF x.k = "inf" /\ y.k = "inf"
         THEN IF x.neg = y.neg THEN x ELSE NaN
    ELSE IF x.k = "inf" THEN x
    ELSE IF y.k = "inf" THEN y
    ELSE AddSigned(x.neg, Units(x, MaxDp(x, y)), y.neg, Units(y, MaxDp(x, y)),
                   MaxDp(x, y))

\* x - y, exact.
minus(x, y) == plus(x, negated(y))

\* x * y, exact.
multipliedBy(x, y) ==
    IF isNaN(x) \/ isNaN(y) THEN NaN
    ELSE IF x.k = "inf" \/ y.k = "inf"
         THEN IF isZero(x) \/ isZero(y) THEN NaN
              ELSE Infinity(x.neg # y.neg)
    ELSE Fin(x.neg # y.neg, BigMul(x.m, y.m), x.dp + y.dp)

\* ROUND_HALF_UP of a quotient with remainder qr = <<q, r>> by d.
HalfUp(qr, d) ==
    IF BigLe(d, BigAdd(qr[2], qr[2])) THEN BigAdd(qr[1], <<1>>) ELSE qr[1]

\* n / d rounded to the nearest natural, halves up, for d > 0.
DivHalfUp(n, d) == HalfUp(BigDivMod(n, d), d)

\* x / y, rounded to DECIMAL_PLACES places, ROUND_HALF_UP.
dividedBy(x, y) ==
    IF isNaN(x) \/ isNaN(y) THEN NaN
    ELSE IF x.k = "inf"
         THEN IF y.k = "inf" THEN NaN ELSE Infinity(x.neg # y.neg)
    ELSE IF y.k = "inf" THEN Fin(FALSE, <<>>, 0)
    ELSE IF isZero(y)
         THEN IF isZero(x) THEN NaN ELSE Infinity(x.neg # y.neg)
    ELSE Fin(x.neg # y.neg,
             DivHalfUp(BigShl(x.m, DpLimbs + y.dp \div 4),
                       BigShl(y.m, x.dp \div 4)),
             DECIMAL_PLACES)

\* ROUND_HALF_UP of the root of n, s = floor(sqrt(n)): one more when the
\* exact root is at least s + 1/2, that is when n - s * s > s.
RoundRoot(n, s) ==
    IF BigLt(s, BigSub(n, BigMul(s, s))) THEN BigAdd(s, <<1>>) ELSE s

RootHalfUp(n) == RoundRoot(n, BigSqrt(n))

\* sqrt(x) of an integer x, rounded to DECIMAL_PLACES places, ROUND_HALF_UP:
\* the rounded root of x * 10^(2 * DECIMAL_PLACES), in units of
\* 10^-DECIMAL_PLACES.
sqrt(x) ==
    IF isNaN(x) \/ (x.neg /\ ~isZero(x)) THEN NaN
    ELSE IF x.k = "inf" THEN x
    ELSE Fin(FALSE, RootHalfUp(BigShl(x.m, 2 * DpLimbs)), DECIMAL_PLACES)

\* Mutant of integerValue: ROUND_UP, away from zero.
integerValueRoundUp(x) ==
    IF x.k # "num" THEN x
    ELSE IF BigShl(BigShr(x.m, x.dp \div 4), x.dp \div 4) = x.m
    THEN Fin(x.neg, BigShr(x.m, x.dp \div 4), 0)
    ELSE Fin(x.neg, BigAdd(BigShr(x.m, x.dp \div 4), <<1>>), 0)

\* x.integerValue(BigNumber.ROUND_DOWN): truncation toward zero.
integerValue(x) ==
    IF x.k # "num" THEN x
    ELSE Fin(x.neg, BigShr(x.m, x.dp \div 4), 0)

-----------------------------------------------------------------------------
(* SwapMath.  A call either returns a value or throws an Error with a       *)
(* message; an Error thrown by a callee propagates through the caller.  A   *)
(* const of the source that is read more than once is the parameter of a    *)
(* helper that holds the statements after its declaration.                  *)

Return(v) == [tag |-> "return", val |-> v, msg |-> ""]

Throw(m) == [tag |-> "throw", val |-> <<>>, msg |-> m]

MAX_FEE_RATE == BN(2000)

FEE_SCALE == BN(10000)

U64_MAX == BNG(<<1844, 6744, 737, 955, 1615>>)

mulToU128(x, y) == multipliedBy(x, y)

square(y) == sqrt(y)

\* Mutant of ReturnU64: the result is returned without the bounds check.
ReturnUnchecked(result) == Return(result)

\* if (result.isGreaterThan(U64_MAX)) throw new Error("U64 overflow");
\* return result;
ReturnU64(result) ==
    IF isGreaterThan(result, U64_MAX) THEN Throw("U64 overflow")
    ELSE Return(result)

\* Mutant of mulDiv: the division is made before the multiplication.
mulDivDivideFirst(x, y, z) ==
    IF isZero(z) THEN Throw("Division by zero")
    ELSE ReturnU64(integerValue(multipliedBy(dividedBy(x, z), y)))

mulDiv(x, y, z) ==
    IF isZero(z) THEN Throw("Division by zero")
    ELSE ReturnU64(integerValue(dividedBy(multipliedBy(x, y), z)))

\* Mutant of WithCoinXReturned: the recomputed X amount is not used.
WithCoinXDesired(coinXDesired, coinYDesired, coinXReturned) ==
    IF coinXReturned.tag = "throw" THEN coinXReturned
    ELSE Return(<<coinXDesired, coinYDesired>>)

\* calcOptimalCoinValues after const coinXReturned.
WithCoinXReturned(coinXDesired, coinYDesired, coinXReturned) ==
    IF coinXReturned.tag = "throw" THEN coinXReturned
    ELSE IF isGreaterThan(coinXReturned.val, coinXDesired)
    THEN Throw("Over limit")
    ELSE Return(<<coinXReturned.val, coinYDesired>>)

\* Mutant of WithCoinYReturned: coinYReturned is accepted without comparing
\* it with coinYDesired.
WithCoinYReturnedAccepted(coinXDesired, coinYDesired, coinXReserve, coinYReserve, coinYReturned) ==
    IF coinYReturned.tag = "throw" THEN coinYReturned
    ELSE Return(<<coinXDesired, coinYReturned.val>>)

\* Mutant of WithCoinYReturned: the reserves of the second mulDiv are swapped.
WithCoinYReturnedSwapped(coinXDesired, coinYDesired, coinXReserve, coinYReserve, coinYReturned) ==
    IF coinYReturned.tag = "throw" THEN coinYReturned
    ELSE IF isLessThanOrEqualTo(coinYReturned.val, coinYDesired)
    THEN Return(<<coinXDesired, coinYReturned.val>>)
    ELSE WithCoinXReturned(coinXDesired, coinYDesired,
                           mulDiv(coinYDesired, coinYReserve, coinXReserve))

\* calcOptimalCoinValues after const coinYReturned.
WithCoinYReturned(coinXDesired, coinYDesired, coinXReserve, coinYReserve, coinYReturned) ==
    IF coinYReturned.tag = "throw" THEN coinYReturned
    ELSE IF isLessThanOrEqualTo(coinYReturned.val, coinYDesired)
    THEN Return(<<coinXDesired, coinYReturned.val>>)
    ELSE WithCoinXReturned(coinXDesired, coinYDesired,
                           mulDiv(coinYDesired, coinXReserve, coinYReserve))

calcOptimalCoinValues(coinXDesired, coinYDesired, coinXReserve, coinYReserve) ==
    IF isZero(coinXReserve) /\ isZero(coinYReserve)
    THEN Return(<<coinXDesired, coinYDesired>>)
    ELSE WithCoinYReturned(coinXDesired, coinYDesired, coinXReserve,
                           coinYReserve,
                           mulDiv(coinXDesired, coinYReserve, coinXReserve))

\* getFeeToTeam after the call of mulDiv.
\* The whole fee, nothing kept from the team.
WholeFee(fee) == fee

FifthOf(fee) ==
    IF fee.tag = "throw" THEN fee
    ELSE Return(integerValue(dividedBy(fee.val, BN(5))))

getFeeToTeam(feeRate, coinIn) == FifthOf(mulDiv(coinIn, feeRate, FEE_SCALE))

\* Mutant of SmallerLiquidity: the larger of xLiq and yLiq is returned.
LargerLiquidity(xLiq, yLiq) ==
    IF isLessThan(xLiq, yLiq) THEN ReturnU64(yLiq) ELSE ReturnU64(xLiq)

\* getExpectedLiquidityAmount after const xLiq and const yLiq.
SmallerLiquidity(xLiq, yLiq) ==
    IF isLessThan(xLiq, yLiq) THEN ReturnU64(xLiq) ELSE ReturnU64(yLiq)

\* Mutant of getExpectedLiquidityAmount: the first deposit keeps the 1000
\* locked units.
getExpectedLiquidityAmountUnlocked(optimalCoinX, optimalCoinY, coinXReserve, coinYReserve, lpSupply) ==
    IF isZero(coinXReserve) /\ isZero(coinYReserve) /\ isZero(lpSupply)
    THEN ReturnU64(integerValue(sqrt(multipliedBy(optimalCoinX, optimalCoinY))))
    ELSE SmallerLiquidity(
             integerValue(dividedBy(multipliedBy(lpSupply, optimalCoinX),
                                    coinXReserve)),
             integerValue(dividedBy(multipliedBy(lpSupply, optimalCoinY),
                                    coinYReserve)))

getExpectedLiquidityAmount(optimalCoinX, optimalCoinY, coinXReserve, coinYReserve, lpSupply) ==
    IF isZero(coinXReserve) /\ isZero(coinYReserve) /\ isZero(lpSupply)
    THEN ReturnU64(minus(integerValue(sqrt(multipliedBy(optimalCoinX,
                                                        optimalCoinY))),
                         BN(1000)))
    ELSE SmallerLiquidity(
             integerValue(dividedBy(multipliedBy(lpSupply, optimalCoinX),
                                    coinXReserve)),
             integerValue(dividedBy(multipliedBy(lpSupply, optimalCoinY),
                                    coinYReserve)))

\* What getAmountOut writes with console.log before it validates anything:
\* the label and the number whose decimal string is printed.
getAmountOutLog(feeRate, amountIn, reserveIn, reserveOut) ==
    IF isZero(feeRate)
    THEN << <<"getAmountOut result:",
              integerValue(dividedBy(multipliedBy(reserveOut, amountIn),
                                     plus(reserveIn, amountIn)))>> >>
    ELSE <<>>

\* The output at the price before the trade, the input not added to the
\* reserve.
AmountOutAtSpotPrice(coinInValAfterFees, reserveIn, reserveOut) ==
    ReturnU64(integerValue(
        dividedBy(multipliedBy(coinInValAfterFees, reserveOut),
                  multipliedBy(reserveIn, FEE_SCALE))))

\* getAmountOut after const coinInValAfterFees.
AmountOutAfterFees(coinInValAfterFees, reserveIn, reserveOut) ==
    ReturnU64(integerValue(
        dividedBy(multipliedBy(coinInValAfterFees, reserveOut),
                  plus(multipliedBy(reserveIn, FEE_SCALE), coinInValAfterFees))))

\* getAmountOut with no fee taken from the input.
getAmountOutWithoutFee(feeRate, amountIn, reserveIn, reserveOut) ==
    IF isGreaterThan(feeRate, MAX_FEE_RATE) THEN Throw("Invalid fee rate")
    ELSE IF isZero(amountIn) THEN Throw("Zero amount")
    ELSE IF isZero(reserveIn) \/ isZero(reserveOut) THEN Throw("Reserves empty")
    ELSE AmountOutAfterFees(multipliedBy(amountIn, FEE_SCALE), reserveIn,
                            reserveOut)

\* getAmountOut with the reserves examined before the amount.
getAmountOutReservesFirst(feeRate, amountIn, reserveIn, reserveOut) ==
    IF isGreaterThan(feeRate, MAX_FEE_RATE) THEN Throw("Invalid fee rate")
    ELSE IF isZero(reserveIn) \/ isZero(reserveOut) THEN Throw("Reserves empty")
    ELSE IF isZero(amountIn) THEN Throw("Zero amount")
    ELSE AmountOutAfterFees(multipliedBy(amountIn, minus(FEE_SCALE, feeRate)),
                            reserveIn, reserveOut)

getAmountOut(feeRate, amountIn, reserveIn, reserveOut) ==
    IF isGreaterThan(feeRate, MAX_FEE_RATE) THEN Throw("Invalid fee rate")
    ELSE IF isZero(amountIn) THEN Throw("Zero amount")
    ELSE IF isZero(reserveIn) \/ isZero(reserveOut) THEN Throw("Reserves empty")
    ELSE AmountOutAfterFees(multipliedBy(amountIn, minus(FEE_SCALE, feeRate)),
                            reserveIn, reserveOut)

\* getAmountIn with the amount examined before the fee rate.
getAmountInAmountFirst(feeRate, amountOut, reserveIn, reserveOut) ==
    IF isZero(amountOut) THEN Throw("Zero amount")
    ELSE IF isGreaterThan(feeRate, MAX_FEE_RATE) THEN Throw("Invalid fee rate")
    ELSE IF isZero(reserveIn) \/ isZero(reserveOut) THEN Throw("Reserves empty")
    ELSE ReturnU64(plus(integerValue(dividedBy(
             multipliedBy(multipliedBy(reserveIn, amountOut), FEE_SCALE),
             multipliedBy(minus(reserveOut, amountOut),
                          minus(FEE_SCALE, feeRate)))), BN(1)))

\* getAmountIn without the unit added to the truncated quotient.
getAmountInRoundedDown(feeRate, amountOut, reserveIn, reserveOut) ==
    IF isGreaterThan(feeRate, MAX_FEE_RATE) THEN Throw("Invalid fee rate")
    ELSE IF isZero(amountOut) THEN Throw("Zero amount")
    ELSE IF isZero(reserveIn) \/ isZero(reserveOut) THEN Throw("Reserves empty")
    ELSE ReturnU64(integerValue(dividedBy(
             multipliedBy(multipliedBy(reserveIn, amountOut), FEE_SCALE),
             multipliedBy(minus(reserveOut, amountOut),
                          minus(FEE_SCALE, feeRate)))))

\* getAmountIn with the two reserves taken for each other.
getAmountInReservesSwapped(feeRate, amountOut, reserveIn, reserveOut) ==
    IF isGreaterThan(feeRate, MAX_FEE_RATE) THEN Throw("Invalid fee rate")
    ELSE IF isZero(amountOut) THEN Throw("Zero amount")
    ELSE IF isZero(reserveIn) \/ isZero(reserveOut) THEN Throw("Reserves empty")
    ELSE ReturnU64(plus(integerValue(dividedBy(
             multipliedBy(multipliedBy(reserveOut, amountOut), FEE_SCALE),
             multipliedBy(minus(reserveIn, amountOut),
                          minus(FEE_SCALE, feeRate)))), BN(1)))

getAmountIn(feeRate, amountOut, reserveIn, reserveOut) ==
    IF isGreaterThan(feeRate, MAX_FEE_RATE) THEN Throw("Invalid fee rate")
    ELSE IF isZero(amountOut) THEN Throw("Zero amount")
    ELSE IF isZero(reserveIn) \/ isZero(reserveOut) THEN Throw("Reserves empty")
    ELSE ReturnU64(plus(integerValue(dividedBy(
             multipliedBy(multipliedBy(reserveIn, amountOut), FEE_SCALE),
             multipliedBy(minus(reserveOut, amountOut),
                          minus(FEE_SCALE, feeRate)))),
                        BN(1)))

\* The low 64 bits of a non-negative integer.
LowU64(x) == Fin(FALSE, BigDivMod(x.m, BigAdd(U64_MAX.m, <<1>>))[2], 0)

\* assertLpValueIsIncreased on products truncated to 64 bits.
assertLpValueIsIncreasedU64(oldReserveX, oldReserveY, newReserveX, newReserveY) ==
    IF isGreaterThan(LowU64(multipliedBy(oldReserveX, oldReserveY)),
                     LowU64(multipliedBy(newReserveX, newReserveY)))
    THEN Throw("Incorrect swap")
    ELSE Return(<<>>)

assertLpValueIsIncreased(oldReserveX, oldReserveY, newReserveX, newReserveY) ==
    IF isGreaterThan(multipliedBy(oldReserveX, oldReserveY),
                     multipliedBy(newReserveX, newReserveY))
    THEN Throw("Incorrect swap")
    ELSE Return(<<>>)

-----------------------------------------------------------------------------
(* utils.ts: the order of coin types.  A type name is the sequence of the   *)
(* bytes TextEncoder gives for it, one byte per character for the ASCII      *)
(* names of Move types.                                                      *)

EQUAL == 0
LESS_THAN == 1
GREATER_THAN == 2

\* The ULEB128 bytes of a length, as BCS writes it before a vector<u8>.
RECURSIVE Uleb128(_)
Uleb128(n) ==
    IF n < 128 THEN <<n>> ELSE <<128 + (n % 128)>> \o Uleb128(n \div 128)

\* bcs.ser("vector<u8>", bytes).toBytes(): the length, then the bytes.
serializeTypeName(typeName) == Uleb128(Len(typeName)) \o typeName

\* The indexes below minLen at which the arrays differ.
Differences(bytesX, bytesY, minLen) ==
    {i \in 1..minLen : bytesX[i] # bytesY[i]}

\* compareByteArrays when the loop has found the first difference at i.
CompareAt(bytesX, bytesY, i) ==
    IF bytesX[i] < bytesY[i] THEN LESS_THAN ELSE GREATER_THAN

\* compareByteArrays once the loop is over.
CompareLengths(lenX, lenY) ==
    IF lenX < lenY THEN LESS_THAN
    ELSE IF lenX > lenY THEN GREATER_THAN
    ELSE EQUAL

MinOf(a, b) == IF a < b THEN a ELSE b

CompareFrom(bytesX, bytesY, diff) ==
    IF diff = {} THEN CompareLengths(Len(bytesX), Len(bytesY))
    ELSE CompareAt(bytesX, bytesY, CHOOSE i \in diff : \A j \in diff : i <= j)

compareByteArrays(bytesX, bytesY) ==
    CompareFrom(bytesX, bytesY,
                Differences(bytesX, bytesY, MinOf(Len(bytesX), Len(bytesY))))

isSortedTypes(typeX, typeY) ==
    IF typeX = typeY THEN Throw("Type X and Type Y cannot be the same")
    ELSE Return(compareByteArrays(serializeTypeName(typeX),
                                  serializeTypeName(typeY)) = LESS_THAN)

\* orderType after the call of isSortedTypes.
OrderedBy(sorted, typeX, typeY) ==
    IF sorted.tag = "throw" THEN sorted
    ELSE IF sorted.val THEN Return(<<typeX, typeY>>)
    ELSE Return(<<typeY, typeX>>)

orderType(typeX, typeY) == OrderedBy(isSortedTypes(typeX, typeY), typeX, typeY)

-----------------------------------------------------------------------------
(* sdk.ts.  A JavaScript number is the decimal value of the double: exact    *)
(* for an integer, and for a fraction the shortest decimal that denotes the  *)
(* double, which is the value new BigNumber(number) takes.                   *)

\* 2^53: the naturals below it are doubles.
TwoTo53 == Groups(<<9007, 1992, 5474, 992>>)

\* 2^k as a limb sequence, for the k < 31 that amounts below 2^84 need.
Pow2(k) == LimbsOf(2^k)

\* The bits of the natural m in excess of the 53 a double keeps, from k up.
RECURSIVE ExcessBits(_, _)
ExcessBits(m, k) ==
    IF BigLt(m, BigMul(TwoTo53, Pow2(k))) THEN k ELSE ExcessBits(m, k + 1)

\* Round to nearest, ties to even, of a quotient with remainder qr by d.
HalfEven(qr, d) ==
    IF BigLt(BigAdd(qr[2], qr[2]), d) THEN qr[1]
    ELSE IF BigLt(d, BigAdd(qr[2], qr[2])) THEN BigAdd(qr[1], <<1>>)
    ELSE IF Limb(qr[1], 1) % 2 = 0 THEN qr[1]
    ELSE BigAdd(qr[1], <<1>>)

\* The double nearest to the natural m, which has k bits in excess.
NearestDouble(m, k) ==
    IF k = 0 THEN m
    ELSE BigMul(HalfEven(BigDivMod(m, Pow2(k)), Pow2(k)), Pow2(k))

\* x.toNumber(): an integer becomes the nearest double; the fractions of the
\* model are short decimals, which denote the double they are converted to.
toNumber(x) ==
    IF x.k # "num" \/ x.dp # 0 THEN x
    ELSE Fin(x.neg, NearestDouble(x.m, ExcessBits(x.m, 0)), 0)

\* An Error whose message holds the values v in the places of the template.
ThrowWith(m, v) == [tag |-> "throw", val |-> v, msg |-> m]

\* tx.pure.u64(value): BigInt(value) fails for a number that is not an
\* integer, and the u64 schema rejects a value outside 0..U64_MAX.
PureU64(value) ==
    IF ~isInteger(value)
    THEN ThrowWith("The number ${value} cannot be converted to a BigInt because it is not an integer", <<value>>)
    ELSE IF isNegative(value) \/ isGreaterThan(value, U64_MAX)
    THEN ThrowWith("Invalid u64 value: ${value}. Expected value in range 0-18446744073709551615", <<value>>)
    ELSE Return(value)

\* The commands a Transaction holds, in the order they were added.
MergeCoins(destination, sources) ==
    [kind |-> "MergeCoins", destination |-> destination, sources |-> sources]

SplitCoins(coin, amounts) ==
    [kind |-> "SplitCoins", coin |-> coin, amounts |-> amounts]

\* The result of the command added last: what tx.splitCoins returns.
NestedResult(commands) == [kind |-> "NestedResult", index |-> Len(commands) - 1]

\* totalAmount after the first n coins of the list.
RECURSIVE TotalOf(_, _)
TotalOf(data, n) ==
    IF n = 0 THEN BN(0) ELSE plus(TotalOf(data, n - 1), data[n].balance)

\* The coins the loop has pushed when it ends: it breaks at the first coin
\* with which totalAmount.gte(amount), or runs through the list.
Enough(data, amount) ==
    {n \in 1..Len(data) : isGreaterThanOrEqualTo(TotalOf(data, n), amount)}

SelectedLength(data, enough) ==
    IF enough = {} THEN Len(data)
    ELSE CHOOSE n \in enough : \A k \in enough : n <= k

CoinObjectIds(data, n) == [i \in 1..n |-> data[i].coinObjectId]

\* A builder's state: the outcome so far and the commands of the transaction.
Built(o, commands) == [outcome |-> o, tx |-> commands]

\* tx after  if (selectedCoins.length > 1) tx.mergeCoins(...).
Merged(selectedCoins, commands) ==
    IF Len(selectedCoins) > 1
    THEN commands \o <<MergeCoins(selectedCoins[1], Tail(selectedCoins))>>
    ELSE commands

\* tx.splitCoins(tx.object(selectedCoins[0]), [tx.pure.u64(amount.toNumber())])
\* and return newCoin; the argument is evaluated before the command is added.
SplitOff(first, pure, commands) ==
    IF pure.tag = "throw" THEN Built(pure, commands)
    ELSE Built(Return(NestedResult(commands \o <<SplitCoins(first, <<pure.val>>)>>)),
               commands \o <<SplitCoins(first, <<pure.val>>)>>)

\* Mutant of SplitSelected: the total is not compared with the amount.
SplitSelectedUnchecked(type, amount, commands, selectedCoins, totalAmount) ==
    SplitOff(selectedCoins[1], PureU64(toNumber(amount)),
             Merged(selectedCoins, commands))

\* splitCoin from the check of the total on.
SplitSelected(type, amount, commands, selectedCoins, totalAmount) ==
    IF Len(selectedCoins) = 0 \/ isLessThan(totalAmount, amount)
    THEN Built(ThrowWith("${type} balance is not enough, current total balance:${totalAmount}",
                         <<type, totalAmount>>),
               commands)
    ELSE SplitOff(selectedCoins[1], PureU64(toNumber(amount)),
                  Merged(selectedCoins, commands))

SplitFrom(type, amount, commands, data, n) ==
    SplitSelected(type, amount, commands, CoinObjectIds(data, n), TotalOf(data, n))

\* A response of the Sui client: a result, or an Error that the await throws.
Responded(result) == [ok |-> TRUE, result |-> result, error |-> ""]

Failed(error) == [ok |-> FALSE, result |-> <<>>, error |-> error]

\* DipCoinSDK.splitCoin, given the response to client.getCoins.  The catch
\* block throws an Error with the message of the one caught.
splitCoin(type, amount, commands, coins) ==
    IF ~coins.ok THEN Built(Throw(coins.error), commands)
    ELSE IF Len(coins.result.data) = 0
    THEN Built(ThrowWith("no ${type} coins available", <<type>>), commands)
    ELSE SplitFrom(type, amount, commands, coins.result.data,
                   SelectedLength(coins.result.data,
                                  Enough(coins.result.data, amount)))

\* constants.ts
DEFAULT_SLIPPAGE == Fin(FALSE, <<500>>, 4)

SWAP_EXACT_X_TO_Y == "swap_exact_x_to_y"

SWAP_EXACT_Y_TO_X == "swap_exact_y_to_x"

SWAP_X_TO_EXACT_Y == "swap_x_to_exact_y"

SWAP_Y_TO_EXACT_X == "swap_y_to_exact_x"

\* "0x" and 63 zeros, "2", "::sui::SUI".
COIN_TYPE_SUI ==
    <<48, 120>> \o [i \in 1..63 |-> 48] \o <<50>>
      \o <<58, 58, 115, 117, 105, 58, 58, 83, 85, 73>>

\* A decimal fraction: the digit groups g over 10^dp.
Decimal(g, dp) == Fin(FALSE, Groups(g), dp)

\* An optional parameter is the empty sequence when it is not given, and
\* otherwise holds its value.
Undefined == <<>>

Given(v) == <<v>>

\* A number in a condition: 0 and NaN are falsy.
Falsy(number) == isZero(number) \/ isNaN(number)

\* params.slippage || DEFAULT_SLIPPAGE
SlippageOr(slippage, default) ==
    IF slippage = Undefined \/ Falsy(slippage[1]) THEN default
    ELSE slippage[1]

\* 1 - slippage in double arithmetic, for the slippages of the model: the
\* difference is the double nearest to the exact one, and 1 - 0.07 is the
\* double 0.9299999999999999.
OneMinus(slippage) ==
    CASE slippage = BN(0) -> BN(1)
      [] slippage = Decimal(<<500>>, 4) -> Decimal(<<9500>>, 4)
      [] slippage = Decimal(<<700>>, 4) -> Decimal(<<9299, 9999, 9999, 9999>>, 16)
      [] slippage = Decimal(<<5000>>, 4) -> Decimal(<<5000>>, 4)

\* amount.multipliedBy(1 - slippage).integerValue(BigNumber.ROUND_DOWN)
\*   .toNumber()
MinWithSlippage(amount, slippage) ==
    toNumber(integerValue(multipliedBy(amount, OneMinus(slippage))))

\* amountIn.dividedBy(1 - slippage).integerValue(BigNumber.ROUND_DOWN)
MaxWithSlippage(amount, slippage) ==
    integerValue(dividedBy(amount, OneMinus(slippage)))

\* The calls on a Transaction other than those of splitCoin.
SetSender(sender) == [kind |-> "SetSender", sender |-> sender]

\* coinWithBalance({balance, type, useGasCoin: true}), an argument that adds
\* its intent to the transaction when the call it is an argument of is added.
CoinWithBalance(balance, type) ==
    [kind |-> "CoinWithBalance", balance |-> balance, type |-> type,
     useGasCoin |-> TRUE]

MoveCall(function, arguments, typeArguments) ==
    [kind |-> "MoveCall",
     target |-> <<"packageId", "router", function>>,
     arguments |-> arguments, typeArguments |-> typeArguments]

\* A call of the engine made by a builder, with its outcome.
EngineCall(f, a, o) == [fn |-> f, args |-> a, outcome |-> o]

NoEngineCall == [fn |-> "", args |-> <<>>, outcome |-> [tag |-> "pending", val |-> <<>>, msg |-> ""]]

\* A builder's state: the outcome so far, the calls made on the Transaction,
\* the requests sent and the call of the engine.
Building(o, commands, requests, engine) ==
    [outcome |-> o, tx |-> commands, rpc |-> requests, engine |-> engine]

\* return tx
Returning(commands, requests, engine) ==
    Building(Return(commands), commands, requests, engine)

GetObject(pooId, response) ==
    [method |-> "getObject", params |-> [id |-> pooId], response |-> response]

GetCoins(owner, coinType, response) ==
    [method |-> "getCoins", params |-> [owner |-> owner, coinType |-> coinType],
     response |-> response]

\* The input coin of a swap: coinWithBalance for SUI after tx.setSender, and
\* the coin splitCoin returns otherwise.
CoinIn(wallet, typeX, amount, coins, commands) ==
    IF typeX = COIN_TYPE_SUI
    THEN [outcome |-> Return(CoinWithBalance(toNumber(amount), typeX)),
          tx |-> commands \o <<SetSender(wallet)>>, rpc |-> <<>>]
    ELSE [outcome |-> splitCoin(typeX, amount, commands, coins).outcome,
          tx |-> splitCoin(typeX, amount, commands, coins).tx,
          rpc |-> <<GetCoins(wallet, typeX, coins)>>]

\* BigInt(balance) of a coinWithBalance argument, when the call is added.
Resolved(coin) ==
    IF coin.kind = "CoinWithBalance" /\ ~isInteger(coin.balance)
    THEN ThrowWith("The number ${value} cannot be converted to a BigInt because it is not an integer", <<coin.balance>>)
    ELSE Return(coin)

\* tx.moveCall of a swap and return tx: tx.pure.u64 is evaluated with the
\* arguments, before the call is added.
SwapCall(function, coin, pure, sorted, pooId, requests, engine) ==
    IF coin.outcome.tag = "throw"
    THEN Building(coin.outcome, coin.tx, requests \o coin.rpc, engine)
    ELSE IF pure.tag = "throw"
    THEN Building(pure, coin.tx, requests \o coin.rpc, engine)
    ELSE IF Resolved(coin.outcome.val).tag = "throw"
    THEN Building(Resolved(coin.outcome.val), coin.tx, requests \o coin.rpc, engine)
    ELSE Returning(coin.tx \o <<MoveCall(function, <<"globalId", pooId, coin.outcome.val, pure.val>>, sorted)>>,
                   requests \o coin.rpc, engine)

\* Mutant of BalanceIn: bal_x whatever the order of the types.
BalanceInUnsorted(pool, isSwap) == pool.bal_x

\* balanceX = isSwap ? pool.bal_y : pool.bal_x
BalanceIn(pool, isSwap) == IF isSwap THEN pool.bal_y ELSE pool.bal_x

\* balanceY = isSwap ? pool.bal_x : pool.bal_y
BalanceOut(pool, isSwap) == IF isSwap THEN pool.bal_x ELSE pool.bal_y

\* buildSwapExactXToYTx from the slippage bound on.
ExactXToYPriced(wallet, params, slippage, sorted, isSwap, requests, engine, coins) ==
    IF engine.outcome.tag = "throw"
    THEN Building(engine.outcome, <<>>, requests, engine)
    ELSE SwapCall(IF isSwap THEN SWAP_EXACT_Y_TO_X ELSE SWAP_EXACT_X_TO_Y,
                  CoinIn(wallet, params.typeX, params.amountIn[1], coins, <<>>),
                  PureU64(MinWithSlippage(engine.outcome.val, slippage)),
                  sorted, params.pooId, requests, engine)

ExactXToYEngine(pool, params, isSwap) ==
    EngineCall("getAmountOut",
               <<pool.fee_rate, params.amountIn[1], BalanceIn(pool, isSwap), BalanceOut(pool, isSwap)>>,
               getAmountOut(pool.fee_rate, params.amountIn[1], BalanceIn(pool, isSwap), BalanceOut(pool, isSwap)))

\* buildSwapExactXToYTx from orderType on.
ExactXToYSorted(wallet, params, slippage, pool, sorted, requests, coins) ==
    IF sorted.tag = "throw" THEN Building(sorted, <<>>, requests, NoEngineCall)
    ELSE ExactXToYPriced(wallet, params, slippage, sorted.val,
                         sorted.val[1] # params.typeX, requests,
                         ExactXToYEngine(pool, params, sorted.val[1] # params.typeX),
                         coins)

\* buildSwapExactXToYTx from the check of the slippage on.
ExactXToYWith(wallet, params, slippage, poolResponse, coins) ==
    IF isGreaterThanOrEqualTo(slippage, BN(1))
    THEN Building(Throw("Slippage must be less than 100%"), <<>>, <<>>, NoEngineCall)
    ELSE IF ~poolResponse.ok
    THEN Building(Throw("Failed to get pool info"), <<>>,
                  <<GetObject(params.pooId, poolResponse)>>, NoEngineCall)
    ELSE ExactXToYSorted(wallet, params, slippage, poolResponse.result,
                         orderType(params.typeX, params.typeY),
                         <<GetObject(params.pooId, poolResponse)>>, coins)

\* DipCoinSDK.buildSwapExactXToYTx, given the responses to the requests for
\* the pool and for the owner's coins.
buildSwapExactXToYTx(wallet, params, poolResponse, coins) ==
    IF params.amountIn = Undefined \/ isLessThanOrEqualTo(params.amountIn[1], BN(0))
    THEN Building(Throw("amountIn must be greater than 0"), <<>>, <<>>, NoEngineCall)
    ELSE ExactXToYWith(wallet, params,
                       SlippageOr(params.slippage, DEFAULT_SLIPPAGE),
                       poolResponse, coins)

\* buildSwapXToExactYTx from the engine's amountIn on.
XToExactYPriced(wallet, params, slippage, sorted, isSwap, requests, engine, coins) ==
    IF engine.outcome.tag = "throw"
    THEN Building(engine.outcome, <<>>, requests, engine)
    ELSE SwapCall(IF isSwap THEN SWAP_Y_TO_EXACT_X ELSE SWAP_X_TO_EXACT_Y,
                  CoinIn(wallet, params.typeX,
                         MaxWithSlippage(engine.outcome.val, slippage), coins,
                         <<>>),
                  PureU64(toNumber(params.amountOut[1])),
                  sorted, params.pooId, requests, engine)

XToExactYEngine(pool, params, isSwap) ==
    EngineCall("getAmountIn",
               <<pool.fee_rate, params.amountOut[1], BalanceIn(pool, isSwap), BalanceOut(pool, isSwap)>>,
               getAmountIn(pool.fee_rate, params.amountOut[1], BalanceIn(pool, isSwap), BalanceOut(pool, isSwap)))

\* buildSwapXToExactYTx from orderType on.
XToExactYSorted(wallet, params, slippage, pool, sorted, requests, coins) ==
    IF sorted.tag = "throw" THEN Building(sorted, <<>>, requests, NoEngineCall)
    ELSE XToExactYPriced(wallet, params, slippage, sorted.val,
                         sorted.val[1] # params.typeX, requests,
                         XToExactYEngine(pool, params, sorted.val[1] # params.typeX),
                         coins)

\* buildSwapXToExactYTx from the check of the slippage on.
XToExactYWith(wallet, params, slippage, poolResponse, coins) ==
    IF isGreaterThanOrEqualTo(slippage, BN(1))
    THEN Building(Throw("Slippage must be less than 100%"), <<>>, <<>>, NoEngineCall)
    ELSE IF ~poolResponse.ok
    THEN Building(Throw("Failed to get pool info"), <<>>,
                  <<GetObject(params.pooId, poolResponse)>>, NoEngineCall)
    ELSE XToExactYSorted(wallet, params, slippage, poolResponse.result,
                         orderType(params.typeX, params.typeY),
                         <<GetObject(params.pooId, poolResponse)>>, coins)

\* DipCoinSDK.buildSwapXToExactYTx, given the responses.
buildSwapXToExactYTx(wallet, params, poolResponse, coins) ==
    IF params.amountOut = Undefined \/ isLessThanOrEqualTo(params.amountOut[1], BN(0))
    THEN Building(Throw("amountOut must be greater than 0"), <<>>, <<>>, NoEngineCall)
    ELSE XToExactYWith(wallet, params,
                       SlippageOr(params.slippage, DEFAULT_SLIPPAGE),
                       poolResponse, coins)

\* What a liquidity builder leaves: the state of the build and the params
\* object of the caller, which the builder writes the sorted types to.
Leaving(params, b) == [params |-> params] @@ b

\* params after  params.typeX = newTypeX; params.typeY = newTypeY  and the
\* exchange of the amounts when the order has changed.
AmountsOrdered(params, sorted) ==
    [params EXCEPT !.typeX = sorted[1], !.typeY = sorted[2],
                   !.amountX = IF sorted[1] # params.typeX THEN params.amountY ELSE @,
                   !.amountY = IF sorted[1] # params.typeX THEN params.amountX ELSE @]

\* buildAddLiquidityTx from the second coin on: the arguments are evaluated,
\* then the call is added.
AddLiquidityCall(params, coinX, coinY, pureX, pureY, requests, engine) ==
    IF coinY.outcome.tag = "throw"
    THEN Building(coinY.outcome, coinY.tx, requests \o coinY.rpc, engine)
    ELSE IF pureX.tag = "throw"
    THEN Building(pureX, coinY.tx, requests \o coinY.rpc, engine)
    ELSE IF pureY.tag = "throw"
    THEN Building(pureY, coinY.tx, requests \o coinY.rpc, engine)
    ELSE IF Resolved(coinX.outcome.val).tag = "throw"
    THEN Building(Resolved(coinX.outcome.val), coinY.tx, requests \o coinY.rpc, engine)
    ELSE IF Resolved(coinY.outcome.val).tag = "throw"
    THEN Building(Resolved(coinY.outcome.val), coinY.tx, requests \o coinY.rpc, engine)
    ELSE Returning(coinY.tx \o <<MoveCall("add_liquidity", <<"globalId", params.pooId, coinX.outcome.val, pureX.val, coinY.outcome.val, pureY.val>>, <<params.typeX, params.typeY>>)>>,
                   requests \o coinY.rpc, engine)

\* buildAddLiquidityTx from the first coin on.
AddLiquidityCoins(wallet, params, coinX, coinsY, pureX, pureY, requests, engine) ==
    IF coinX.outcome.tag = "throw"
    THEN Building(coinX.outcome, coinX.tx, requests \o coinX.rpc, engine)
    ELSE AddLiquidityCall(params, coinX,
                          CoinIn(wallet, params.typeY, params.amountY, coinsY, coinX.tx),
                          pureX, pureY, requests \o coinX.rpc, engine)

\* buildAddLiquidityTx from the check of the expected LP amount on.
AddLiquidityExpected(wallet, params, slippage, pool, requests, engine, expectedLp, coinsX, coinsY) ==
    IF expectedLp.tag = "throw" THEN Building(expectedLp, <<>>, requests, engine)
    ELSE IF isLessThan(expectedLp.val, pool.min_add_liquidity_lp_amount)
    THEN Building(ThrowWith("add liquidity too little, expectedLp:${expectedLp} is less than min_add_liquidity_lp_amount:${minAddLiquidityLpAmount}",
                            <<expectedLp.val, pool.min_add_liquidity_lp_amount>>),
                  <<>>, requests, engine)
    ELSE AddLiquidityCoins(wallet, params,
                           CoinIn(wallet, params.typeX, params.amountX, coinsX, <<>>),
                           coinsY,
                           PureU64(MinWithSlippage(engine.outcome.val[1], slippage)),
                           PureU64(MinWithSlippage(engine.outcome.val[2], slippage)),
                           requests, engine)

\* buildAddLiquidityTx from the optimal amounts on.
AddLiquidityDesired(wallet, params, slippage, pool, requests, engine, coinsX, coinsY) ==
    IF engine.outcome.tag = "throw"
    THEN Building(engine.outcome, <<>>, requests, engine)
    ELSE AddLiquidityExpected(wallet, params, slippage, pool, requests, engine,
                              getExpectedLiquidityAmount(engine.outcome.val[1], engine.outcome.val[2],
                                                         pool.bal_x, pool.bal_y, pool.lp_supply),
                              coinsX, coinsY)

\* buildAddLiquidityTx from the query of the pool on.
AddLiquidityOrdered(wallet, params, slippage, poolResponse, coinsX, coinsY) ==
    IF ~poolResponse.ok
    THEN Building(Throw("Failed to get pool info"), <<>>,
                  <<GetObject(params.pooId, poolResponse)>>, NoEngineCall)
    ELSE AddLiquidityDesired(wallet, params, slippage, poolResponse.result,
                             <<GetObject(params.pooId, poolResponse)>>,
                             EngineCall("calcOptimalCoinValues",
                                        <<params.amountX, params.amountY, poolResponse.result.bal_x, poolResponse.result.bal_y>>,
                                        calcOptimalCoinValues(params.amountX, params.amountY,
                                                              poolResponse.result.bal_x,
                                                              poolResponse.result.bal_y)),
                             coinsX, coinsY)

\* buildAddLiquidityTx from the check of the slippage on.
AddLiquidityWith(wallet, params, slippage, sorted, poolResponse, coinsX, coinsY) ==
    IF isGreaterThanOrEqualTo(slippage, BN(1))
    THEN Leaving(params, Building(Throw("Slippage must be less than 100%"), <<>>, <<>>, NoEngineCall))
    ELSE IF sorted.tag = "throw"
    THEN Leaving(params, Building(sorted, <<>>, <<>>, NoEngineCall))
    ELSE Leaving(AmountsOrdered(params, sorted.val),
                 AddLiquidityOrdered(wallet, AmountsOrdered(params, sorted.val),
                                     slippage, poolResponse, coinsX, coinsY))

\* DipCoinSDK.buildAddLiquidityTx, given the responses to the requests for
\* the pool and for the owner's coins of the two types.
buildAddLiquidityTx(wallet, params, poolResponse, coinsX, coinsY) ==
    IF \/ isLessThanOrEqualTo(params.amountX, BN(0))
       \/ isLessThanOrEqualTo(params.amountY, BN(0))
    THEN Leaving(params, Building(Throw("Amount must be greater than 0"), <<>>, <<>>, NoEngineCall))
    ELSE AddLiquidityWith(wallet, params,
                          SlippageOr(params.slippage, DEFAULT_SLIPPAGE),
                          orderType(params.typeX, params.typeY),
                          poolResponse, coinsX, coinsY)

\* getLpType: `${packageId}::manage::LP<${newTypeX}, ${newTypeY}>`
LpType(sorted) == <<"packageId", "manage", "LP", sorted[1], sorted[2]>>

\* tx.object(id)
Object(id) == [kind |-> "Object", id |-> id]

\* getMergedCoin from the check of the total on.
MergeSelected(type, amount, commands, selectedCoins, totalAmount) ==
    IF Len(selectedCoins) = 0 \/ isLessThan(totalAmount, amount)
    THEN Built(ThrowWith("${type} balance is not enough, current total balance:${totalAmount}",
                         <<type, totalAmount>>),
               commands)
    ELSE Built(Return(Object(selectedCoins[1])), Merged(selectedCoins, commands))

MergeFrom(type, amount, commands, data, n) ==
    MergeSelected(type, amount, commands, CoinObjectIds(data, n), TotalOf(data, n))

\* DipCoinSDK.getMergedCoin, given the response to client.getCoins.
getMergedCoin(type, amount, commands, coins) ==
    IF ~coins.ok THEN Built(Throw(coins.error), commands)
    ELSE IF Len(coins.result.data) = 0
    THEN Built(ThrowWith("no ${type} coins available", <<type>>), commands)
    ELSE MergeFrom(type, amount, commands, coins.result.data,
                   SelectedLength(coins.result.data,
                                  Enough(coins.result.data, amount)))

\* buildRemoveLiquidityTx from the minimums on.
RemoveLiquidityCall(params, mergedCoin, pureLp, pureX, pureY, commands, requests, engine) ==
    IF pureLp.tag = "throw" THEN Building(pureLp, commands, requests, engine)
    ELSE IF pureX.tag = "throw" THEN Building(pureX, commands, requests, engine)
    ELSE IF pureY.tag = "throw" THEN Building(pureY, commands, requests, engine)
    ELSE Returning(commands \o <<MoveCall("remove_liquidity", <<"globalId", params.pooId, mergedCoin, pureLp.val, pureX.val, pureY.val>>, <<params.typeX, params.typeY>>)>>,
                   requests, engine)

\* buildRemoveLiquidityTx from the amounts coinXOut and coinYOut on.
RemoveLiquidityOut(params, slippage, mergedCoin, commands, requests, engine, coinYOut) ==
    IF engine.outcome.tag = "throw"
    THEN Building(engine.outcome, commands, requests, engine)
    ELSE IF coinYOut.tag = "throw"
    THEN Building(coinYOut, commands, requests, engine)
    ELSE RemoveLiquidityCall(params, mergedCoin,
                             PureU64(toNumber(params.removeLpAmount)),
                             PureU64(MinWithSlippage(engine.outcome.val, slippage)),
                             PureU64(MinWithSlippage(coinYOut.val, slippage)),
                             commands, requests, engine)

\* buildRemoveLiquidityTx from the merged coin on.
RemoveLiquidityMerged(params, slippage, pool, merged, requests) ==
    IF merged.outcome.tag = "throw"
    THEN Building(merged.outcome, merged.tx, requests, NoEngineCall)
    ELSE RemoveLiquidityOut(params, slippage, merged.outcome.val, merged.tx, requests,
                            EngineCall("mulDiv",
                                       <<pool.bal_x, params.removeLpAmount, pool.lp_supply>>,
                                       mulDiv(pool.bal_x, params.removeLpAmount, pool.lp_supply)),
                            mulDiv(pool.bal_y, params.removeLpAmount, pool.lp_supply))

\* buildRemoveLiquidityTx from the query of the pool on.
RemoveLiquiditySorted(wallet, params, slippage, lpType, poolResponse, coins) ==
    IF ~poolResponse.ok
    THEN Building(Throw("Failed to get pool info"), <<>>,
                  <<GetObject(params.pooId, poolResponse)>>, NoEngineCall)
    ELSE IF isLessThan(params.removeLpAmount,
                       dividedBy(poolResponse.result.min_add_liquidity_lp_amount, BN(10)))
    THEN Building(ThrowWith("removeLpAmount:${removeLpAmount} is less than min_remove_liquidity_lp_amount:${minRemoveLpAmount}",
                            <<params.removeLpAmount,
                              dividedBy(poolResponse.result.min_add_liquidity_lp_amount, BN(10))>>),
                  <<>>, <<GetObject(params.pooId, poolResponse)>>, NoEngineCall)
    ELSE RemoveLiquidityMerged(params, slippage, poolResponse.result,
                               getMergedCoin(lpType, params.removeLpAmount, <<>>, coins),
                               <<GetObject(params.pooId, poolResponse),
                                 GetCoins(wallet, lpType, coins)>>)

\* params after  params.typeX = newTypeX; params.typeY = newTypeY.
TypesOrdered(params, sorted) ==
    [params EXCEPT !.typeX = sorted[1], !.typeY = sorted[2]]

\* buildRemoveLiquidityTx from the check of the slippage on.
RemoveLiquidityWith(wallet, params, slippage, sorted, poolResponse, coins) ==
    IF isGreaterThanOrEqualTo(slippage, BN(1))
    THEN Leaving(params, Building(Throw("Slippage must be less than 100%"), <<>>, <<>>, NoEngineCall))
    ELSE IF sorted.tag = "throw"
    THEN Leaving(params, Building(sorted, <<>>, <<>>, NoEngineCall))
    ELSE Leaving(TypesOrdered(params, sorted.val),
                 RemoveLiquiditySorted(wallet, TypesOrdered(params, sorted.val),
                                       slippage, LpType(sorted.val), poolResponse, coins))

\* DipCoinSDK.buildRemoveLiquidityTx, given the responses to the requests
\* for the pool and for the owner's LP coins.
buildRemoveLiquidityTx(wallet, params, poolResponse, coins) ==
    IF isLessThanOrEqualTo(params.removeLpAmount, BN(0))
    THEN Leaving(params, Building(Throw("Amount must be greater than 0"), <<>>, <<>>, NoEngineCall))
    ELSE RemoveLiquidityWith(wallet, params,
                             SlippageOr(params.slippage, DEFAULT_SLIPPAGE),
                             orderType(params.typeX, params.typeY),
                             poolResponse, coins)

-----------------------------------------------------------------------------
(* The engine as a state machine.  SwapMath keeps no state of its own: a    *)
(* state is one call, first pending with its arguments and then completed   *)
(* with its outcome and whatever it wrote to the console.  Arguments are the *)
(* amounts, reserves, supplies and fee rates of the data model:             *)
(* non-negative integers up to U64_MAX.                                     *)
(* A caller may pass the amount that getAmountOut or getAmountIn returned   *)
(* to the other of the two, or the reserves of the priced trade to          *)
(* assertLpValueIsIncreased: followUp records that second call.             *)

VARIABLES fn, args, pc, outcome, console, followUp

\* A pool on which a caller carries out swaps priced by getAmountOut: its
\* reserves now and at the start, the number of swaps, and the last swap.
VARIABLES reserves, initialReserves, swaps, lastSwap

poolVars == <<reserves, initialReserves, swaps, lastSwap>>

\* The SDK around the engine: the requests made to the Sui client so far and
\* the commands of the transaction under construction.
VARIABLES rpc, tx

sdkVars == <<rpc, tx>>

\* The module-level option objects of config/mainnet.ts and
\* config/testnet.ts, and the SDK instances created so far.
VARIABLES dipCoinMainnet, dipCoinTestnet, sdks

configVars == <<dipCoinMainnet, dipCoinTestnet, sdks>>

vars == <<fn, args, pc, outcome, console, followUp, poolVars, sdkVars, configVars>>

MaxSmall == 3

Small == {BN(n) : n \in 0..MaxSmall}
U64_MAX_LESS_1 == minus(U64_MAX, BN(1))

MulDivPool == Small \cup {BN(100), BN(1000), U64_MAX_LESS_1, U64_MAX}
MulDivArgs == {<<x, y, z>> : x \in MulDivPool, y \in MulDivPool, z \in MulDivPool}

\* Desired amounts and reserves of an add: every small combination, and the
\* larger desired amounts against a choice of pools.
DesiredPool == Small \cup {BN(100), BN(300), U64_MAX}
ReservePairs ==
    {<<BN(1000), BN(2000)>>, <<BN(2000), BN(1000)>>, <<BN(1), U64_MAX>>,
     <<U64_MAX, BN(1)>>, <<U64_MAX, U64_MAX>>, <<U64_MAX_LESS_1, U64_MAX>>}
CalcOptimalArgs ==
    {<<xd, yd, xr, yr>> : xd \in Small, yd \in Small, xr \in Small, yr \in Small}
      \cup {<<xd, yd, r[1], r[2]>> : xd \in DesiredPool, yd \in DesiredPool,
                                     r \in ReservePairs}

\* Optimal amounts against a pool <<coinXReserve, coinYReserve, lpSupply>>.
OptimalPool == Small \cup {BN(100), BN(200), BN(1000), BN(2000), U64_MAX}
PoolStates ==
    {<<BN(0), BN(0), BN(0)>>, <<BN(1000), BN(2000), BN(1000)>>,
     <<BN(1), BN(1), U64_MAX>>, <<U64_MAX, U64_MAX, U64_MAX>>,
     <<U64_MAX, BN(1), BN(1)>>, <<U64_MAX_LESS_1, U64_MAX, U64_MAX>>}
LiquidityArgs ==
    {<<x, y, xr, yr, lp>> : x \in Small, y \in Small,
                            xr \in Small, yr \in Small, lp \in Small}
      \cup {<<x, y, p[1], p[2], p[3]>> : x \in OptimalPool, y \in OptimalPool,
                                         p \in PoolStates}

FeeRates == {BN(0), BN(1), BN(30), BN(2000), BN(2001)}
AmountPool == {BN(1), BN(1000), U64_MAX}
SwapReservePairs ==
    {<<BN(1000000), BN(2000000)>>, <<BN(1), U64_MAX>>, <<U64_MAX, BN(1)>>,
     <<U64_MAX, BN(2)>>, <<U64_MAX, U64_MAX>>}
\* A swap of 796381926646 at fee rate 30 against reserves
\* (17975644824501292767, 11288898614808271328).
LargeSwap ==
    <<BN(30), BNG(<<7963, 8192, 6646>>), BNG(<<1797, 5644, 8245, 129, 2767>>),
      BNG(<<1128, 8898, 6148, 827, 1328>>)>>
\* A purchase of 939109664274 at fee rate 30 from reserves
\* (3956308583858030358, 15159243880565270018).
LargeSwapIn ==
    <<BN(30), BNG(<<9391, 966, 4274>>), BNG(<<395, 6308, 5838, 5803, 358>>),
      BNG(<<1515, 9243, 8805, 6527, 18>>)>>
SwapArgs ==
    {<<f, a, ri, ro>> : f \in FeeRates, a \in Small, ri \in Small, ro \in Small}
      \cup {<<f, a, r[1], r[2]>> : f \in FeeRates, a \in AmountPool,
                                   r \in SwapReservePairs}
      \cup {LargeSwap, LargeSwapIn}

FeeToTeamArgs ==
    {<<f, c>> : f \in FeeRates \cup {FEE_SCALE, U64_MAX}, c \in MulDivPool}

LpValuePool == Small \cup {U64_MAX}
LpValueArgs ==
    {<<ox, oy, nx, ny>> : ox \in LpValuePool, oy \in LpValuePool,
                          nx \in LpValuePool, ny \in LpValuePool}

ArgsOf(f) ==
    CASE f = "mulDiv" -> MulDivArgs
      [] f = "calcOptimalCoinValues" -> CalcOptimalArgs
      [] f = "getFeeToTeam" -> FeeToTeamArgs
      [] f = "getExpectedLiquidityAmount" -> LiquidityArgs
      [] f = "getAmountOut" -> SwapArgs
      [] f = "getAmountIn" -> SwapArgs
      [] f = "assertLpValueIsIncreased" -> LpValueArgs

Functions ==
    {"mulDiv", "calcOptimalCoinValues", "getFeeToTeam",
     "getExpectedLiquidityAmount", "getAmountOut", "getAmountIn",
     "assertLpValueIsIncreased"}

Pending == [tag |-> "pending", val |-> <<>>, msg |-> ""]

\* No swap has been carried out.
NoSwap == [direction |-> "", feeRate |-> <<>>, amountIn |-> <<>>, reserveIn |-> <<>>, reserveOut |-> <<>>, outcome |-> Pending]

\* No pool is being traded on.
NoPool ==
    /\ reserves = <<>>
    /\ initialReserves = <<>>
    /\ swaps = 0
    /\ lastSwap = NoSwap

\* No request has been made and the transaction has no command.
NoSdk == rpc = <<>> /\ tx = <<>>

\* getFullnodeUrl(network) of @mysten/sui/client.
getFullnodeUrl(network) ==
    IF network = "mainnet" THEN "https://fullnode.mainnet.sui.io:443"
    ELSE "https://fullnode.testnet.sui.io:443"

\* The modules config/mainnet.ts and config/testnet.ts have been loaded and
\* no SDK has been created.
ConfigInit ==
    /\ dipCoinMainnet = [suiRpc |-> getFullnodeUrl("mainnet")]
    /\ dipCoinTestnet = [suiRpc |-> getFullnodeUrl("testnet")]
    /\ sdks = <<>>

\* No call has been made on the result of the first one.
NoFollowUp == [fn |-> "", args |-> <<>>, outcome |-> Pending]

Init ==
    /\ fn \in Functions
    /\ args \in ArgsOf(fn)
    /\ pc = "call"
    /\ outcome = Pending
    /\ console = <<>>
    /\ followUp = NoFollowUp
    /\ NoPool
    /\ NoSdk
    /\ ConfigInit

Complete(f, result) ==
    /\ pc = "call"
    /\ fn = f
    /\ outcome' = result
    /\ pc' = "done"
    /\ UNCHANGED <<fn, args, followUp, poolVars, sdkVars, configVars>>

CallMulDiv ==
    /\ Complete("mulDiv", mulDiv(args[1], args[2], args[3]))
    /\ UNCHANGED console

CallCalcOptimalCoinValues ==
    /\ Complete("calcOptimalCoinValues",
                calcOptimalCoinValues(args[1], args[2], args[3], args[4]))
    /\ UNCHANGED console

CallGetFeeToTeam ==
    /\ Complete("getFeeToTeam", getFeeToTeam(args[1], args[2]))
    /\ UNCHANGED console

CallGetExpectedLiquidityAmount ==
    /\ Complete("getExpectedLiquidityAmount",
                getExpectedLiquidityAmount(args[1], args[2], args[3], args[4],
                                           args[5]))
    /\ UNCHANGED console

CallGetAmountOut ==
    /\ Complete("getAmountOut", getAmountOut(args[1], args[2], args[3], args[4]))
    /\ console' = console \o getAmountOutLog(args[1], args[2], args[3], args[4])

CallGetAmountIn ==
    /\ Complete("getAmountIn", getAmountIn(args[1], args[2], args[3], args[4]))
    /\ UNCHANGED console

CallAssertLpValueIsIncreased ==
    /\ Complete("assertLpValueIsIncreased",
                assertLpValueIsIncreased(args[1], args[2], args[3], args[4]))
    /\ UNCHANGED console

\* The method f has returned a value and nothing was called on it yet.
Returned(f) ==
    pc = "done" /\ fn = f /\ outcome.tag = "return" /\ followUp = NoFollowUp

\* The caller passes the returned value on to the method f.
FollowUp(f, a, result) ==
    /\ followUp' = [fn |-> f, args |-> a, outcome |-> result]
    /\ UNCHANGED <<fn, args, pc, outcome, poolVars, sdkVars, configVars>>

\* getAmountIn(feeRate, getAmountOut(feeRate, amountIn, reserveIn,
\* reserveOut), reserveIn, reserveOut).
GetAmountInOfAmountOut ==
    /\ Returned("getAmountOut")
    /\ FollowUp("getAmountIn", <<args[1], outcome.val, args[3], args[4]>>,
                getAmountIn(args[1], outcome.val, args[3], args[4]))
    /\ UNCHANGED console

\* getAmountOut(feeRate, getAmountIn(feeRate, amountOut, reserveIn,
\* reserveOut), reserveIn, reserveOut).
GetAmountOutOfAmountIn ==
    /\ Returned("getAmountIn")
    /\ FollowUp("getAmountOut", <<args[1], outcome.val, args[3], args[4]>>,
                getAmountOut(args[1], outcome.val, args[3], args[4]))
    /\ console' = console \o getAmountOutLog(args[1], outcome.val, args[3],
                                              args[4])

\* The reserves after the trade: amountIn added to reserveIn, amountOut taken
\* from reserveOut.
ReservesAfter(amountIn, amountOut, reserveIn, reserveOut) ==
    <<reserveIn, reserveOut, plus(reserveIn, amountIn),
      minus(reserveOut, amountOut)>>

AssertLpValue(a) ==
    /\ FollowUp("assertLpValueIsIncreased", a,
                assertLpValueIsIncreased(a[1], a[2], a[3], a[4]))
    /\ UNCHANGED console

\* assertLpValueIsIncreased on the reserves before and after the trade
\* getAmountOut has priced.
AssertAfterGetAmountOut ==
    /\ Returned("getAmountOut")
    /\ AssertLpValue(ReservesAfter(args[2], outcome.val, args[3], args[4]))

\* assertLpValueIsIncreased on the reserves before and after the trade
\* getAmountIn has priced.
AssertAfterGetAmountIn ==
    /\ Returned("getAmountIn")
    /\ AssertLpValue(ReservesAfter(outcome.val, args[2], args[3], args[4]))

Next ==
    \/ CallMulDiv
    \/ CallCalcOptimalCoinValues
    \/ CallGetFeeToTeam
    \/ CallGetExpectedLiquidityAmount
    \/ CallGetAmountOut
    \/ CallGetAmountIn
    \/ GetAmountInOfAmountOut
    \/ GetAmountOutOfAmountIn
    \/ AssertAfterGetAmountOut
    \/ AssertAfterGetAmountIn
    \/ CallAssertLpValueIsIncreased

Spec == Init /\ [][Next]_vars

-----------------------------------------------------------------------------
(* A pool under a sequence of swaps.  The caller prices each swap with       *)
(* getAmountOut on the current reserves, adds amountIn to the reserve of the *)
(* token paid in and takes amountOut from the other reserve.  Reserves are   *)
(* 64-bit amounts, so a swap whose input would take its reserve beyond       *)
(* U64_MAX is not made.                                                      *)

MaxSwaps == 2

\* A swap of 796381926646 against this pool is the one of LargeSwap.
LargePool == <<LargeSwap[3], LargeSwap[4]>>

InitialPools == {<<BN(1), BN(1)>>, <<BN(1), U64_MAX>>, LargePool}

SwapFeeRates == {BN(0), BN(30)}

Directions == {"XToY", "YToX"}

\* The amounts a swap may pay into a reserve: one unit, the amount of
\* LargeSwap, and all that the 64-bit reserve still has room for.
SwapAmounts(reserveIn) ==
    {a \in {BN(1), LargeSwap[2], minus(U64_MAX, reserveIn)} :
        ~isZero(a) /\ isLessThanOrEqualTo(plus(reserveIn, a), U64_MAX)}

\* The reserves in the order (X, Y) from those in the order (in, out).
Oriented(d, reserveIn, reserveOut) ==
    IF d = "XToY" THEN <<reserveIn, reserveOut>> ELSE <<reserveOut, reserveIn>>

\* Mutant of SwapApplied: amountOut leaves the pool and amountIn does not
\* enter it.
SwapAppliedWithoutInput(d, amountIn, reserveIn, reserveOut, o) ==
    IF o.tag = "return"
    THEN Oriented(d, reserveIn, minus(reserveOut, o.val))
    ELSE Oriented(d, reserveIn, reserveOut)

\* The reserves after the swap that getAmountOut priced with outcome o; a
\* swap whose pricing failed is not carried out.
SwapApplied(d, amountIn, reserveIn, reserveOut, o) ==
    IF o.tag = "return"
    THEN Oriented(d, plus(reserveIn, amountIn), minus(reserveOut, o.val))
    ELSE Oriented(d, reserveIn, reserveOut)

SwapPriced(d, feeRate, amountIn, reserveIn, reserveOut, o) ==
    /\ reserves' = SwapApplied(d, amountIn, reserveIn, reserveOut, o)
    /\ lastSwap' = [direction |-> d, feeRate |-> feeRate, amountIn |-> amountIn, reserveIn |-> reserveIn, reserveOut |-> reserveOut, outcome |-> o]
    /\ console' = console \o getAmountOutLog(feeRate, amountIn, reserveIn, reserveOut)
    /\ swaps' = swaps + 1
    /\ UNCHANGED <<fn, args, pc, outcome, followUp, initialReserves, sdkVars, configVars>>

\* A swap pays amountIn into reserveIn at the price of getAmountOut.
Swap(d, reserveIn, reserveOut) ==
    /\ swaps < MaxSwaps
    /\ \E feeRate \in SwapFeeRates, amountIn \in SwapAmounts(reserveIn) :
          \E o \in {getAmountOut(feeRate, amountIn, reserveIn, reserveOut)} :
             SwapPriced(d, feeRate, amountIn, reserveIn, reserveOut, o)

SwapXToY ==
    \E reserveIn \in {reserves[1]}, reserveOut \in {reserves[2]} :
       Swap("XToY", reserveIn, reserveOut)

SwapYToX ==
    \E reserveIn \in {reserves[2]}, reserveOut \in {reserves[1]} :
       Swap("YToX", reserveIn, reserveOut)

PoolInit ==
    /\ reserves \in InitialPools
    /\ initialReserves = reserves
    /\ swaps = 0
    /\ lastSwap = NoSwap
    /\ fn = ""
    /\ args = <<>>
    /\ pc = "idle"
    /\ outcome = Pending
    /\ console = <<>>
    /\ followUp = NoFollowUp
    /\ NoSdk
    /\ ConfigInit

PoolNext ==
    \/ SwapXToY
    \/ SwapYToX

PoolSpec == PoolInit /\ [][PoolNext]_vars

-----------------------------------------------------------------------------
(* The SDK and its utilities, one call at a time.                            *)

\* n bytes c.
Repeat(c, n) == [i \in 1..n |-> c]

MaxNameLen == 2

\* Type names: every name of the letters a and b up to MaxNameLen letters,
\* and names of 127 and 128 letters, where the BCS length takes a second
\* byte.
ShortNames == UNION {[1..n -> {97, 98}] : n \in 0..MaxNameLen}

TypeNames == ShortNames \cup {Repeat(97, 127), Repeat(97, 128)}

TypePairs == TypeNames \X TypeNames

\* Coins of an owner as client.getCoins returns them; a balance is the
\* value of its decimal string.
MaxCoins == 3

CoinBalances == {BN(0), BN(1), BN(2), BN(4), BNG(<<9007, 1992, 5474, 993>>)}

CoinsOf(balances) ==
    [data |-> [i \in 1..Len(balances) |->
                 [coinObjectId |-> <<"coin", i>>, balance |-> balances[i]]]]

CoinLists == UNION {[1..n -> CoinBalances] : n \in 0..MaxCoins}

GetCoinsResponses ==
    {Responded(CoinsOf(b)) : b \in CoinLists} \cup {Failed("fetch failed")}

\* Amounts asked of splitCoin: within, at and beyond the totals of the
\* lists, beyond 2^53, and the NaN of an amount that was never a number.
SplitAmounts ==
    {BN(0), BN(1), BN(3), BN(7), BNG(<<9007, 1992, 5474, 993>>),
     BNG(<<9007, 1992, 5475, 0>>), NaN}

Owners == {"0xa11ce"}

\* The transaction handed to splitCoin: new, or with a command already.
GivenTxs == {<<>>, <<SplitCoins(<<"coin", 0>>, <<BN(1)>>)>>}

\* The types of a swap: in either order, equal, with SUI, and of different
\* lengths.
SwapTypePairs ==
    {<<(<<97>>), (<<98>>)>>, <<(<<98>>), (<<97>>)>>, <<(<<97>>), (<<97>>)>>,
     <<COIN_TYPE_SUI, (<<97>>)>>, <<(<<97>>), COIN_TYPE_SUI>>,
     <<(<<97, 98>>), (<<98>>)>>, <<(<<98>>), (<<97, 98>>)>>}

\* params.slippage: not given, 0, 0.05, 0.07, 0.5, 1, 1.5 and NaN.
Slippages ==
    {Undefined, Given(BN(0)), Given(Decimal(<<500>>, 4)),
     Given(Decimal(<<700>>, 4)), Given(Decimal(<<5000>>, 4)), Given(BN(1)),
     Given(Decimal(<<1, 5000>>, 4)), Given(NaN)}

\* params.amountIn and params.amountOut.
SwapParamAmounts == {Undefined, Given(BN(0)), Given(BN(100)), Given(BN(502))}

\* The Pool object decoded from the response to getObject.
Pool(bal_x, bal_y, fee_rate, lp_supply, min_add_liquidity_lp_amount) ==
    [bal_x |-> bal_x, bal_y |-> bal_y, fee_rate |-> fee_rate,
     lp_supply |-> lp_supply,
     min_add_liquidity_lp_amount |-> min_add_liquidity_lp_amount]

Pools ==
    {Pool(BN(10000), BN(30000), BN(30), BN(15000), BN(100)),
     Pool(BN(20000), BN(5000), BN(0), BN(10000), BN(10)),
     Pool(BN(1000), LargeSwap[4], BN(30), BN(1000000), BN(1000))}

GetPoolResponses == {Responded(q) : q \in Pools} \cup {Failed("Pool not found")}

SwapCoinsResponses ==
    {Responded(CoinsOf(<<BN(1000)>>)), Responded(CoinsOf(<<BN(300), BN(400)>>))}

SwapParams(types, amountIn, amountOut, slippage) ==
    [pooId |-> "0xp001", typeX |-> types[1], typeY |-> types[2],
     amountIn |-> amountIn, amountOut |-> amountOut, slippage |-> slippage]

\* params.amountX and params.amountY of a deposit.
DepositAmounts == {<<BN(0), BN(100)>>, <<BN(100), BN(300)>>, <<BN(502), BN(100)>>}

AddLiquidityParams(types, amounts, slippage) ==
    [pooId |-> "0xp001", typeX |-> types[1], typeY |-> types[2],
     amountX |-> amounts[1], amountY |-> amounts[2], slippage |-> slippage]

\* params.removeLpAmount
RemoveLpAmounts == {BN(0), BN(10), BN(100), BN(502)}

RemoveLiquidityParams(types, removeLpAmount, slippage) ==
    [pooId |-> "0xp001", typeX |-> types[1], typeY |-> types[2],
     removeLpAmount |-> removeLpAmount, slippage |-> slippage]

SdkArgsOf(f) ==
    CASE f = "isSortedTypes" -> TypePairs
      [] f = "orderType" -> TypePairs
      [] f = "buildAddLiquidityTx" ->
           {<<w, AddLiquidityParams(t, a, s)>> :
              w \in Owners, t \in SwapTypePairs, a \in DepositAmounts, s \in Slippages}
      [] f = "buildRemoveLiquidityTx" ->
           {<<w, RemoveLiquidityParams(t, a, s)>> :
              w \in Owners, t \in SwapTypePairs, a \in RemoveLpAmounts, s \in Slippages}
      [] f = "buildSwapExactXToYTx" ->
           {<<w, SwapParams(t, a, Undefined, s)>> :
              w \in Owners, t \in SwapTypePairs, a \in SwapParamAmounts, s \in Slippages}
      [] f = "buildSwapXToExactYTx" ->
           {<<w, SwapParams(t, Undefined, a, s)>> :
              w \in Owners, t \in SwapTypePairs, a \in SwapParamAmounts, s \in Slippages}
      [] f = "splitCoin" ->
           Owners \X {<<97>>, <<98>>} \X SplitAmounts \X GivenTxs

\* The transaction a call works on: the one given to splitCoin, and for the
\* other functions none.
TxOf(f, a) == IF f = "splitCoin" THEN a[4] ELSE <<>>

SdkFunctions ==
    {"isSortedTypes", "orderType", "splitCoin", "buildAddLiquidityTx",
     "buildRemoveLiquidityTx", "buildSwapExactXToYTx", "buildSwapXToExactYTx"}

SdkInit ==
    /\ fn \in SdkFunctions
    /\ args \in SdkArgsOf(fn)
    /\ pc = "call"
    /\ outcome = Pending
    /\ console = <<>>
    /\ followUp = NoFollowUp
    /\ NoPool
    /\ rpc = <<>>
    /\ tx = TxOf(fn, args)
    /\ ConfigInit

\* A request to the Sui client with the response it got.
Request(method, params, response) ==
    [method |-> method, params |-> params, response |-> response]

\* The end of a call that has sent requests and built commands.
Finish(f, built, requests) ==
    /\ pc = "call"
    /\ fn = f
    /\ outcome' = built.outcome
    /\ tx' = built.tx
    /\ rpc' = rpc \o requests
    /\ pc' = "done"
    /\ UNCHANGED <<fn, args, followUp, poolVars, configVars>>

CallIsSortedTypes ==
    /\ Complete("isSortedTypes", isSortedTypes(args[1], args[2]))
    /\ UNCHANGED console

CallOrderType ==
    /\ Complete("orderType", orderType(args[1], args[2]))
    /\ UNCHANGED console

CallSplitCoin ==
    /\ fn = "splitCoin"
    /\ \E coins \in GetCoinsResponses :
         Finish("splitCoin", splitCoin(args[2], args[3], tx, coins),
                <<Request("getCoins", [owner |-> args[1], coinType |-> args[2]], coins)>>)
    /\ UNCHANGED console

\* The line getAmountOut has written when a builder has called it.
EngineLog(engine) ==
    IF engine.fn = "getAmountOut"
    THEN getAmountOutLog(engine.args[1], engine.args[2], engine.args[3], engine.args[4])
    ELSE <<>>

\* The end of a builder: its outcome, the transaction it has built, the
\* requests it has sent and the call of the engine it has made.
FinishBuilder(f, b) ==
    /\ pc = "call"
    /\ fn = f
    /\ outcome' = b.outcome
    /\ tx' = b.tx
    /\ rpc' = b.rpc
    /\ followUp' = b.engine
    /\ console' = console \o EngineLog(b.engine)
    /\ pc' = "done"
    /\ UNCHANGED <<fn, args, poolVars, configVars>>

\* The end of a liquidity builder, which has written to the params object.
FinishLiquidityBuilder(f, b) ==
    /\ pc = "call"
    /\ fn = f
    /\ outcome' = b.outcome
    /\ tx' = b.tx
    /\ rpc' = b.rpc
    /\ followUp' = b.engine
    /\ args' = <<args[1], b.params>>
    /\ pc' = "done"
    /\ UNCHANGED <<fn, console, poolVars, configVars>>

CallBuildAddLiquidityTx ==
    /\ fn = "buildAddLiquidityTx"
    /\ \E poolResponse \in GetPoolResponses :
         \E coinsX \in SwapCoinsResponses, coinsY \in SwapCoinsResponses :
           FinishLiquidityBuilder("buildAddLiquidityTx",
                                  buildAddLiquidityTx(args[1], args[2], poolResponse, coinsX, coinsY))

CallBuildRemoveLiquidityTx ==
    /\ fn = "buildRemoveLiquidityTx"
    /\ \E poolResponse \in GetPoolResponses, coins \in SwapCoinsResponses :
         FinishLiquidityBuilder("buildRemoveLiquidityTx",
                                buildRemoveLiquidityTx(args[1], args[2], poolResponse, coins))

CallBuildSwapExactXToYTx ==
    /\ fn = "buildSwapExactXToYTx"
    /\ \E poolResponse \in GetPoolResponses, coins \in SwapCoinsResponses :
         FinishBuilder("buildSwapExactXToYTx",
                       buildSwapExactXToYTx(args[1], args[2], poolResponse, coins))

CallBuildSwapXToExactYTx ==
    /\ fn = "buildSwapXToExactYTx"
    /\ \E poolResponse \in GetPoolResponses, coins \in SwapCoinsResponses :
         FinishBuilder("buildSwapXToExactYTx",
                       buildSwapXToExactYTx(args[1], args[2], poolResponse, coins))

SdkNext ==
    \/ CallIsSortedTypes
    \/ CallOrderType
    \/ CallSplitCoin
    \/ CallBuildAddLiquidityTx
    \/ CallBuildRemoveLiquidityTx
    \/ CallBuildSwapExactXToYTx
    \/ CallBuildSwapXToExactYTx

SdkSpec == SdkInit /\ [][SdkNext]_vars

-----------------------------------------------------------------------------
(* config: the init functions and the option objects they share.  An SDK     *)
(* keeps a reference to the option object it was constructed with, and its   *)
(* SuiClient keeps the URL the object held at construction.                  *)

MaxInits == 3

\* customRpc?: string, as a sequence that is empty when the argument is
\* absent, and holds the string otherwise.
CustomRpcs == {Undefined, <<"">>, <<"https://rpc-a.example">>, <<"https://rpc-b.example">>}

Networks == {"mainnet", "testnet"}

\* if (customRpc): undefined and the empty string are falsy.
Truthy(customRpc) == customRpc # Undefined /\ customRpc[1] # ""

\* The option object after  if (customRpc) { object.suiRpc = customRpc; }.
WithRpc(object, customRpc) ==
    IF Truthy(customRpc) THEN [object EXCEPT !.suiRpc = customRpc[1]]
    ELSE object

\* new DipCoinSDK(options): this.options is the object itself, named here by
\* its variable; the client is created with the URL it holds now.
DipCoinSDK(optionsName, options, call) ==
    [options |-> optionsName,
     client |-> [url |-> options.suiRpc],
     call |-> call]

\* The object an SDK's options refer to, as it is in the current state.
optionsField(sdk) ==
    IF sdk.options = "dipCoinMainnet" THEN dipCoinMainnet ELSE dipCoinTestnet

ConfigIdle ==
    /\ UNCHANGED <<fn, args, pc, outcome, console, followUp>>
    /\ UNCHANGED <<poolVars, sdkVars>>

MainnetSDK(customRpc, call) ==
    /\ dipCoinMainnet' = WithRpc(dipCoinMainnet, customRpc)
    /\ sdks' = Append(sdks, DipCoinSDK("dipCoinMainnet", dipCoinMainnet', call))
    /\ UNCHANGED dipCoinTestnet
    /\ ConfigIdle

TestnetSDK(customRpc, call) ==
    /\ dipCoinTestnet' = WithRpc(dipCoinTestnet, customRpc)
    /\ sdks' = Append(sdks, DipCoinSDK("dipCoinTestnet", dipCoinTestnet', call))
    /\ UNCHANGED dipCoinMainnet
    /\ ConfigIdle

Called(f, network, customRpc) ==
    [fn |-> f, network |-> network, customRpc |-> customRpc]

initMainnetSDK ==
    /\ Len(sdks) < MaxInits
    /\ \E customRpc \in CustomRpcs :
         MainnetSDK(customRpc, Called("initMainnetSDK", "mainnet", customRpc))

initTestnetSDK ==
    /\ Len(sdks) < MaxInits
    /\ \E customRpc \in CustomRpcs :
         TestnetSDK(customRpc, Called("initTestnetSDK", "testnet", customRpc))

initDipCoinSDK ==
    /\ Len(sdks) < MaxInits
    /\ \E network \in Networks, customRpc \in CustomRpcs :
         IF network = "mainnet"
         THEN MainnetSDK(customRpc, Called("initDipCoinSDK", network, customRpc))
         ELSE TestnetSDK(customRpc, Called("initDipCoinSDK", network, customRpc))

ConfigSpecInit ==
    /\ fn = ""
    /\ args = <<>>
    /\ pc = "idle"
    /\ outcome = Pending
    /\ console = <<>>
    /\ followUp = NoFollowUp
    /\ NoPool
    /\ NoSdk
    /\ ConfigInit

ConfigNext ==
    \/ initMainnetSDK
    \/ initTestnetSDK
    \/ initDipCoinSDK

ConfigSpec == ConfigSpecInit /\ [][ConfigNext]_vars

-----------------------------------------------------------------------------
(* Properties.  They are stated on limb sequences with multiplication and   *)
(* comparison only: q is floor(n / d) when q * d <= n < (q + 1) * d, and r  *)
(* is floor(sqrt(n)) when r * r <= n < (r + 1) * (r + 1).                   *)

Done(f) == pc = "done" /\ fn = f

IsNat(v) == v.k = "num" /\ ~v.neg /\ v.dp = 0

Succ(q) == BigAdd(q, <<1>>)

IsFloorDiv(q, n, d) == BigLe(BigMul(q, d), n) /\ BigLt(n, BigMul(Succ(q), d))

IsFloorSqrt(r, n) ==
    BigLe(BigMul(r, r), n) /\ BigLt(n, BigMul(Succ(r), Succ(r)))

\* floor(n / d) <= U64_MAX, for d > 0.
FloorFitsU64(n, d) == BigLt(n, BigMul(Succ(U64_MAX.m), d))

\* The value is the natural number floor(n / d).
ReturnsFloor(o, n, d) ==
    o.tag = "return" /\ IsNat(o.val) /\ IsFloorDiv(o.val.m, n, d)

C2_MulDivErrors ==
    Done("mulDiv") =>
      /\ isZero(args[3]) => outcome = Throw("Division by zero")
      /\ ~isZero(args[3]) =>
           (outcome = Throw("U64 overflow")
              <=> ~FloorFitsU64(BigMul(args[1].m, args[2].m), args[3].m))
      /\ outcome.tag \in {"return", "throw"}
      /\ outcome.tag = "throw" => outcome.val = <<>>

\* mulDiv(U64_MAX, 2, 1) has failed with the overflow error.
C2_Witness ==
    /\ Done("mulDiv")
    /\ args = <<U64_MAX, BN(2), BN(1)>>
    /\ outcome = Throw("U64 overflow")

\* floor(xDesired * yReserve / xReserve) <= yDesired, for xReserve > 0.
YReturnedWithin(xd, yd, xr, yr) == BigLt(BigMul(xd.m, yr.m), BigMul(Succ(yd.m), xr.m))

\* C3: whenever calcOptimalCoinValues returns (xOptimal, yOptimal),
\* xOptimal <= xDesired and yOptimal <= yDesired.
C3_OptimalWithinDesired ==
    (Done("calcOptimalCoinValues") /\ outcome.tag = "return")
    => /\ IsNat(outcome.val[1]) /\ BigLe(outcome.val[1].m, args[1].m)
       /\ IsNat(outcome.val[2]) /\ BigLe(outcome.val[2].m, args[2].m)

\* Desired (300, 100) against reserves (1000, 2000) has returned (50, 100).
C3_Witness ==
    /\ Done("calcOptimalCoinValues")
    /\ args = <<BN(300), BN(100), BN(1000), BN(2000)>>
    /\ outcome = Return(<<BN(50), BN(100)>>)

\* The pair the functional description of calcOptimalCoinValues gives.
OptimalAsDescribed(o, xd, yd, xr, yr) ==
    IF YReturnedWithin(xd, yd, xr, yr)
    THEN /\ o.tag = "return"
         /\ o.val[1] = xd
         /\ IsNat(o.val[2]) /\ IsFloorDiv(o.val[2].m, BigMul(xd.m, yr.m), xr.m)
    ELSE /\ o.tag = "return"
         /\ o.val[2] = yd
         /\ IsNat(o.val[1]) /\ IsFloorDiv(o.val[1].m, BigMul(yd.m, xr.m), yr.m)

\* C4 as stated: calcOptimalCoinValues returns (xDesired, yDesired) when both
\* reserves are zero; otherwise, with yReturned = floor(xDesired * yReserve /
\* xReserve), it returns (xDesired, yReturned) when yReturned <= yDesired and
\* (floor(yDesired * xReserve / yReserve), yDesired) when yReturned > yDesired.
\* Read for xReserve > 0, where yReturned is defined.
C4_AsStated ==
    Done("calcOptimalCoinValues") =>
      /\ (isZero(args[3]) /\ isZero(args[4]))
           => outcome = Return(<<args[1], args[2]>>)
      /\ ~isZero(args[3])
           => OptimalAsDescribed(outcome, args[1], args[2], args[3], args[4])

\* C4, amended: as stated when yReturned <= U64_MAX; the call fails with
\* "U64 overflow" when yReturned > U64_MAX and with "Division by zero" when
\* xReserve = 0 < yReserve.
C4_OptimalOrFailure ==
    Done("calcOptimalCoinValues") =>
      /\ (isZero(args[3]) /\ isZero(args[4]))
           => outcome = Return(<<args[1], args[2]>>)
      /\ (isZero(args[3]) /\ ~isZero(args[4]))
           => outcome = Throw("Division by zero")
      /\ ~isZero(args[3]) =>
           IF FloorFitsU64(BigMul(args[1].m, args[4].m), args[3].m)
           THEN OptimalAsDescribed(outcome, args[1], args[2], args[3], args[4])
           ELSE outcome = Throw("U64 overflow")

\* Desired (100, 300) against reserves (1000, 2000) has returned (100, 200).
C4_Witness ==
    /\ Done("calcOptimalCoinValues")
    /\ args = <<BN(100), BN(300), BN(1000), BN(2000)>>
    /\ outcome = Return(<<BN(100), BN(200)>>)

\* C5: "Over limit" is unreachable: whenever the second branch is taken,
\* floor(xDesired * yReserve / xReserve) > yDesired, the recomputed
\* floor(yDesired * xReserve / yReserve) is <= xDesired.
C5_OverLimitUnreachable ==
    Done("calcOptimalCoinValues") =>
      /\ outcome # Throw("Over limit")
      /\ (~isZero(args[3]) /\ ~isZero(args[4])
            /\ ~YReturnedWithin(args[1], args[2], args[3], args[4]))
           => BigLt(BigMul(args[2].m, args[3].m), BigMul(Succ(args[1].m), args[4].m))

\* Desired (3, 1) against reserves (1, 1) has taken the second branch and
\* returned (1, 1).
C5_Witness ==
    /\ Done("calcOptimalCoinValues")
    /\ args = <<BN(3), BN(1), BN(1), BN(1)>>
    /\ outcome = Return(<<BN(1), BN(1)>>)

\* 0 <= a - b < r.
WithinOneTruncation(a, b, r) == BigLe(b, a) /\ BigLt(a, BigAdd(b, r))

\* C6: when both reserves are positive and calcOptimalCoinValues returns
\* (xOptimal, yOptimal), either
\* 0 <= xOptimal * yReserve - yOptimal * xReserve < xReserve or
\* 0 <= yOptimal * xReserve - xOptimal * yReserve < yReserve.
C6_RatioWithinTruncation ==
    (Done("calcOptimalCoinValues") /\ outcome.tag = "return"
       /\ ~isZero(args[3]) /\ ~isZero(args[4]))
    => /\ IsNat(outcome.val[1]) /\ IsNat(outcome.val[2])
       /\ \/ WithinOneTruncation(BigMul(outcome.val[1].m, args[4].m),
                                 BigMul(outcome.val[2].m, args[3].m), args[3].m)
          \/ WithinOneTruncation(BigMul(outcome.val[2].m, args[3].m),
                                 BigMul(outcome.val[1].m, args[4].m), args[4].m)

\* Desired (3, 3) against reserves (2, 1) has returned (3, 1): 3 * 1 - 1 * 2
\* is 1, a truncation remainder below xReserve.
C6_Witness ==
    /\ Done("calcOptimalCoinValues")
    /\ args = <<BN(3), BN(3), BN(2), BN(1)>>
    /\ outcome = Return(<<BN(3), BN(1)>>)

FirstDeposit == isZero(args[3]) /\ isZero(args[4]) /\ isZero(args[5])

\* The value is floor(sqrt(xOpt * yOpt)) - 1000.
ReturnsRootLessLock(o, xOpt, yOpt) ==
    /\ o.tag = "return"
    /\ IsNat(plus(o.val, BN(1000)))
    /\ IsFloorSqrt(plus(o.val, BN(1000)).m, BigMul(xOpt.m, yOpt.m))

\* m is min(floor(a / xr), floor(b / yr)): the floor of one quotient, and at
\* most the other.
IsSmallerFloor(m, a, xr, b, yr) ==
    \/ IsFloorDiv(m, a, xr) /\ BigLe(BigMul(m, yr), b)
    \/ IsFloorDiv(m, b, yr) /\ BigLe(BigMul(m, xr), a)

ReturnsSmallerFloor(o, a, xr, b, yr) ==
    o.tag = "return" /\ IsNat(o.val) /\ IsSmallerFloor(o.val.m, a, xr, b, yr)

C8_AsStated ==
    Done("getExpectedLiquidityAmount") =>
      /\ (FirstDeposit /\ BigLt(BigMul(args[1].m, args[2].m), LimbsOf(1000000)))
           => outcome.tag = "throw"
      /\ outcome.tag = "return" => ~isNegative(outcome.val)

\* C9: for a subsequent deposit (xReserve > 0, yReserve > 0, lpSupply > 0)
\* the returned amount m satisfies m * xReserve <= lpSupply * xOpt and
\* m * yReserve <= lpSupply * yOpt, hence
\* (xReserve + xOpt) * lpSupply >= xReserve * (lpSupply + m), and likewise
\* for Y.
C9_SharesNotDiluted ==
    (Done("getExpectedLiquidityAmount") /\ outcome.tag = "return"
       /\ ~isZero(args[3]) /\ ~isZero(args[4]) /\ ~isZero(args[5]))
    => /\ IsNat(outcome.val)
       /\ BigLe(BigMul(outcome.val.m, args[3].m), BigMul(args[5].m, args[1].m))
       /\ BigLe(BigMul(outcome.val.m, args[4].m), BigMul(args[5].m, args[2].m))
       /\ BigLe(BigMul(args[3].m, BigAdd(args[5].m, outcome.val.m)),
                BigMul(BigAdd(args[3].m, args[1].m), args[5].m))
       /\ BigLe(BigMul(args[4].m, BigAdd(args[5].m, outcome.val.m)),
                BigMul(BigAdd(args[4].m, args[2].m), args[5].m))

\* getExpectedLiquidityAmount(100, 2000, 1000, 2000, 1000) has returned 100,
\* the X side's quotient, not the Y side's 1000.
C9_Witness ==
    /\ Done("getExpectedLiquidityAmount")
    /\ args = <<BN(100), BN(2000), BN(1000), BN(2000), BN(1000)>>
    /\ outcome = Return(BN(100))

\* C10 as stated: for feeRate <= 2000, amountIn > 0, reserveIn > 0 and
\* reserveOut > 0, getAmountOut returns
\* floor(a * reserveOut / (reserveIn * 10000 + a)) with
\* a = amountIn * (10000 - feeRate).
C10_AsStated ==
    (Done("getAmountOut") /\ BigLe(args[1].m, LimbsOf(2000))
       /\ ~isZero(args[2]) /\ ~isZero(args[3]) /\ ~isZero(args[4]))
    => ReturnsFloor(outcome,
                    BigMul(BigMul(args[2].m, BigSub(LimbsOf(10000), args[1].m)),
                           args[4].m),
                    BigAdd(BigMul(args[3].m, LimbsOf(10000)),
                           BigMul(args[2].m, BigSub(LimbsOf(10000), args[1].m))))

\* The fee rate of the completed swap computation is at most 2000.
ValidFeeRate == BigLe(args[1].m, LimbsOf(2000))

\* The amount and both reserves of the completed swap computation are
\* positive.
PositiveSwap == ~isZero(args[2]) /\ ~isZero(args[3]) /\ ~isZero(args[4])

C12_ZeroAndEmptyGuards ==
    ((Done("getAmountOut") \/ Done("getAmountIn")) /\ ValidFeeRate) =>
      /\ isZero(args[2]) => outcome = Throw("Zero amount")
      /\ (~isZero(args[2]) /\ (isZero(args[3]) \/ isZero(args[4])))
           => outcome = Throw("Reserves empty")
      /\ outcome.tag = "throw" => outcome.val = <<>>

\* getAmountOut(30, 0, 0, 0) has failed with the zero-amount error, not the
\* empty-reserves one.
C12_Witness ==
    /\ Done("getAmountOut")
    /\ args = <<BN(30), BN(0), BN(0), BN(0)>>
    /\ outcome = Throw("Zero amount")

\* reserveIn * amountOut * 10000 of the completed getAmountIn call.
AmountInNumerator == BigMul(BigMul(args[3].m, args[2].m), LimbsOf(10000))

\* (reserveOut - amountOut) * (10000 - feeRate) of the completed getAmountIn
\* call, for amountOut <= reserveOut and feeRate <= 10000.
AmountInDenominator ==
    BigMul(BigSub(args[4].m, args[2].m), BigSub(LimbsOf(10000), args[1].m))

\* The outcome is floor(n / d) + 1, or the overflow error when that exceeds
\* U64_MAX, for d > 0.
ReturnsFloorPlusOne(o, n, d) ==
    IF BigLt(n, BigMul(U64_MAX.m, d))
    THEN /\ o.tag = "return" /\ IsNat(o.val) /\ ~isZero(o.val)
         /\ IsFloorDiv(BigSub(o.val.m, <<1>>), n, d)
    ELSE o = Throw("U64 overflow")

\* C13 as stated: for feeRate <= 2000, reserveIn > 0 and
\* 0 < amountOut < reserveOut, getAmountIn returns
\* floor(reserveIn * amountOut * 10000
\*       / ((reserveOut - amountOut) * (10000 - feeRate))) + 1,
\* and fails with "U64 overflow" when that exceeds U64_MAX.
C13_AsStated ==
    (Done("getAmountIn") /\ ValidFeeRate /\ PositiveSwap
       /\ BigLt(args[2].m, args[4].m))
    => ReturnsFloorPlusOne(outcome, AmountInNumerator, AmountInDenominator)

\* The messages of the errors getAmountIn raises for other reasons.
OtherErrors ==
    {"Invalid fee rate", "Zero amount", "Reserves empty", "U64 overflow",
     "Division by zero"}

\* C14 as stated: for a valid fee rate, a positive amount and positive
\* reserves, getAmountIn fails whenever reserveOut <= amountOut, with an
\* error of its own (insufficient liquidity) that is none of the overflow,
\* division and guard errors; it returns no value for such inputs.
C14_AsStated ==
    (Done("getAmountIn") /\ ValidFeeRate /\ PositiveSwap
       /\ BigLe(args[4].m, args[2].m))
    => outcome.tag = "throw" /\ outcome.msg \notin OtherErrors

\* The method f has been called on the value the first call returned.
Followed(f) == followUp.fn = f

\* The outcome is a natural number not greater than the natural number n.
ReturnsAtMost(o, n) == o.tag = "return" /\ IsNat(o.val) /\ BigLe(o.val.m, n)

\* C15 as stated: for feeRate <= 2000, positive reserves and amountIn > 0,
\* with amountOut = getAmountOut(feeRate, amountIn, reserveIn, reserveOut),
\* getAmountIn(feeRate, amountOut, reserveIn, reserveOut) <= amountIn.
C15_AsStated ==
    (Done("getAmountOut") /\ Followed("getAmountIn"))
    => ReturnsAtMost(followUp.outcome, args[2].m)

\* C15: for feeRate <= 2000, positive reserves and amountIn > 0, with
\* amountOut = getAmountOut(feeRate, amountIn, reserveIn, reserveOut):
\* getAmountIn(feeRate, amountOut, reserveIn, reserveOut) fails with
\* "Zero amount" when amountOut = 0; otherwise it returns a value that is at
\* most amountIn + 1, or fails with "U64 overflow", and that only for
\* amountIn = U64_MAX.
C15_RoundTripWithinOne ==
    (Done("getAmountOut") /\ Followed("getAmountIn")) =>
      IF isZero(outcome.val)
      THEN followUp.outcome = Throw("Zero amount")
      ELSE \/ ReturnsAtMost(followUp.outcome, Succ(args[2].m))
           \/ followUp.outcome = Throw("U64 overflow") /\ args[2] = U64_MAX

\* getAmountOut(0, 1000, 1000000, 2000000) has returned 1998 and
\* getAmountIn(0, 1998, 1000000, 2000000) has returned 1000.
C15_Witness ==
    /\ Done("getAmountOut")
    /\ args = <<BN(0), BN(1000), BN(1000000), BN(2000000)>>
    /\ outcome = Return(BN(1998))
    /\ Followed("getAmountIn")
    /\ followUp.outcome = Return(BN(1000))

\* reserveIn * reserveOut.
ProductBefore(reserveIn, reserveOut) == BigMul(reserveIn.m, reserveOut.m)

\* (reserveIn + amountIn) * (reserveOut - amountOut), for natural numbers
\* with amountOut <= reserveOut.
ProductAfter(amountIn, amountOut, reserveIn, reserveOut) ==
    BigMul(BigAdd(reserveIn.m, amountIn.m), BigSub(reserveOut.m, amountOut.m))

\* C16: for every amountOut that getAmountOut returns on valid inputs,
\* reserveIn * reserveOut <= (reserveIn + amountIn) * (reserveOut - amountOut),
\* so assertLpValueIsIncreased(reserveIn, reserveOut, reserveIn + amountIn,
\* reserveOut - amountOut) does not fail.
C16_ProductNotDecreased ==
    (Done("getAmountOut") /\ outcome.tag = "return") =>
      /\ IsNat(outcome.val) /\ BigLe(outcome.val.m, args[4].m)
      /\ BigLe(ProductBefore(args[3], args[4]),
               ProductAfter(args[2], outcome.val, args[3], args[4]))
      /\ Followed("assertLpValueIsIncreased")
           => /\ followUp.args = <<args[3], args[4], plus(args[3], args[2]),
                                   minus(args[4], outcome.val)>>
              /\ followUp.outcome = Return(<<>>)

\* The swap of 796381926646 at fee rate 30 has returned 498635998635 and
\* assertLpValueIsIncreased on the reserves before and after has returned.
C16_Witness ==
    /\ Done("getAmountOut")
    /\ args = LargeSwap
    /\ outcome = Return(BNG(<<4986, 3599, 8635>>))
    /\ Followed("assertLpValueIsIncreased")
    /\ followUp.outcome = Return(<<>>)

\* C17 as stated: after every trade priced by getAmountOut on valid inputs
\* the reserve product strictly increases:
\* reserveIn * reserveOut < (reserveIn + amountIn) * (reserveOut - amountOut).
C17_AsStated ==
    (Done("getAmountOut") /\ outcome.tag = "return") =>
      /\ IsNat(outcome.val) /\ BigLe(outcome.val.m, args[4].m)
      /\ BigLt(ProductBefore(args[3], args[4]),
               ProductAfter(args[2], outcome.val, args[3], args[4]))

\* C17: after a trade priced by getAmountOut on valid inputs the reserve
\* product strictly increases when feeRate > 0; when feeRate = 0 it does not
\* decrease, and it stays the same exactly when
\* amountOut * (reserveIn + amountIn) = amountIn * reserveOut, that is when
\* the division leaves no remainder.
C17_ProductIncreasedByFee ==
    (Done("getAmountOut") /\ outcome.tag = "return") =>
      /\ IsNat(outcome.val) /\ BigLe(outcome.val.m, args[4].m)
      /\ ~isZero(args[1])
           => BigLt(ProductBefore(args[3], args[4]),
                    ProductAfter(args[2], outcome.val, args[3], args[4]))
      /\ isZero(args[1])
           => /\ BigLe(ProductBefore(args[3], args[4]),
                       ProductAfter(args[2], outcome.val, args[3], args[4]))
              /\ ProductBefore(args[3], args[4])
                   = ProductAfter(args[2], outcome.val, args[3], args[4])
                 <=> BigMul(outcome.val.m, BigAdd(args[3].m, args[2].m))
                       = BigMul(args[2].m, args[4].m)

\* getAmountOut(30, 1000, 1000000, 2000000) has returned 1992, which takes
\* the product from 2000000000000 to 1001000 * 1998008.
C17_Witness ==
    /\ Done("getAmountOut")
    /\ args = <<BN(30), BN(1000), BN(1000000), BN(2000000)>>
    /\ outcome = Return(BN(1992))
    /\ ProductAfter(args[2], outcome.val, args[3], args[4])
         = BigMul(LimbsOf(1001000), LimbsOf(1998008))

\* C18: for feeRate <= 2000, reserveIn > 0 and 0 < amountOut < reserveOut,
\* whenever getAmountIn returns amountIn,
\* getAmountOut(feeRate, amountIn, reserveIn, reserveOut) >= amountOut and
\* reserveIn * reserveOut <= (reserveIn + amountIn) * (reserveOut - amountOut).
C18_AmountInSuffices ==
    (Done("getAmountIn") /\ outcome.tag = "return" /\ ValidFeeRate
       /\ PositiveSwap /\ BigLt(args[2].m, args[4].m)) =>
      /\ IsNat(outcome.val)
      /\ BigLe(ProductBefore(args[3], args[4]),
               ProductAfter(outcome.val, args[2], args[3], args[4]))
      /\ Followed("getAmountOut")
           => /\ followUp.outcome.tag = "return"
              /\ IsNat(followUp.outcome.val)
              /\ BigLe(args[2].m, followUp.outcome.val.m)
      /\ Followed("assertLpValueIsIncreased")
           => followUp.outcome = Return(<<>>)

\* getAmountIn(30, 1000, 1000000, 2000000) has returned 502 and
\* getAmountOut(30, 502, 1000000, 2000000) has returned 1000.
C18_Witness ==
    /\ Done("getAmountIn")
    /\ args = <<BN(30), BN(1000), BN(1000000), BN(2000000)>>
    /\ outcome = Return(BN(502))
    /\ Followed("getAmountOut")
    /\ followUp.outcome = Return(BN(1000))

\* coinIn * feeRate of the completed getFeeToTeam call.
FeeProduct == BigMul(args[2].m, args[1].m)

\* C19: for non-negative integers feeRate and coinIn with
\* total = floor(coinIn * feeRate / 10000) <= U64_MAX, getFeeToTeam returns
\* team = floor(total / 5): 5 * team <= total, that is
\* 5 * team * 10000 <= coinIn * feeRate, and total < 5 * team + 5, that is
\* coinIn * feeRate < (5 * team + 5) * 10000.
C19_TeamFeeIsFifth ==
    (Done("getFeeToTeam") /\ FloorFitsU64(FeeProduct, LimbsOf(10000))) =>
      /\ outcome.tag = "return" /\ IsNat(outcome.val)
      /\ BigLe(BigMul(BigMul(LimbsOf(5), outcome.val.m), LimbsOf(10000)),
               FeeProduct)
      /\ BigLt(FeeProduct,
               BigMul(BigAdd(BigMul(LimbsOf(5), outcome.val.m), LimbsOf(5)),
                      LimbsOf(10000)))

\* getFeeToTeam(30, U64_MAX) has returned 11068046444225730, a fifth of the
\* total fee 55340232221128654, both quotients truncated.
C19_Witness ==
    /\ Done("getFeeToTeam")
    /\ args = <<BN(30), U64_MAX>>
    /\ outcome = Return(BNG(<<1, 1068, 464, 4422, 5730>>))

\* C20: assertLpValueIsIncreased fails with "Incorrect swap" if and only if
\* oldReserveX * oldReserveY > newReserveX * newReserveY, the products
\* compared in full; with an equal or larger new product it returns.
C20_FailsOnSmallerProduct ==
    Done("assertLpValueIsIncreased") =>
      /\ outcome = Throw("Incorrect swap")
           <=> BigLt(BigMul(args[3].m, args[4].m), BigMul(args[1].m, args[2].m))
      /\ outcome \in {Throw("Incorrect swap"), Return(<<>>)}

\* assertLpValueIsIncreased(U64_MAX, 2, U64_MAX, 3) has returned: the
\* products are beyond 64 bits, and their low 64 bits compare the other way.
C20_Witness ==
    /\ Done("assertLpValueIsIncreased")
    /\ args = <<U64_MAX, BN(2), U64_MAX, BN(3)>>
    /\ outcome = Return(<<>>)
    /\ BigLt(U64_MAX.m, BigMul(args[1].m, args[2].m))

\* C21 as stated: no call of a SwapMath operation writes any output, for any
\* input, feeRate = 0 in getAmountOut included: the console stays as it was
\* before the call.
C21_AsStated == console = <<>>

\* The value is an integer in [0, U64_MAX].
IsU64(v) == IsNat(v) /\ BigLe(v.m, U64_MAX.m)

\* The operations that return amounts.
AmountFunctions ==
    {"mulDiv", "calcOptimalCoinValues", "getExpectedLiquidityAmount",
     "getAmountOut", "getAmountIn", "getFeeToTeam"}

\* C22 as stated: for non-negative integer inputs, whatever mulDiv,
\* calcOptimalCoinValues, getExpectedLiquidityAmount, getAmountOut,
\* getAmountIn or getFeeToTeam returns consists of integers in [0, U64_MAX]:
\* never a negative, fractional, infinite or not-a-number value.
C22_AsStated ==
    (pc = "done" /\ fn \in AmountFunctions /\ outcome.tag = "return") =>
      IF fn = "calcOptimalCoinValues"
      THEN IsU64(outcome.val[1]) /\ IsU64(outcome.val[2])
      ELSE IsU64(outcome.val)

\* The error the guards of getAmountOut and getAmountIn raise on the
\* arguments a, in the order fee rate, amount, reserves; "" when none
\* applies.
GuardError(a) ==
    IF BigLt(LimbsOf(2000), a[1].m) THEN "Invalid fee rate"
    ELSE IF isZero(a[2]) THEN "Zero amount"
    ELSE IF isZero(a[3]) \/ isZero(a[4]) THEN "Reserves empty"
    ELSE ""

\* C29: when several preconditions of getAmountOut or getAmountIn are
\* violated at once, the one error raised is that of the first violated
\* precondition in the order invalid fee rate, zero amount, empty reserves;
\* when none is violated, none of the three errors is raised.
C29_GuardPrecedence ==
    (Done("getAmountOut") \/ Done("getAmountIn")) =>
      IF GuardError(args) = ""
      THEN outcome.msg \notin {"Invalid fee rate", "Zero amount", "Reserves empty"}
      ELSE outcome = Throw(GuardError(args))

\* getAmountIn(2001, 0, 0, 0), which violates all three preconditions, has
\* failed with the invalid-fee-rate error.
C29_Witness ==
    /\ Done("getAmountIn")
    /\ args = <<BN(2001), BN(0), BN(0), BN(0)>>
    /\ outcome = Throw("Invalid fee rate")

\* The pool's reserves are positive 64-bit integers.
ReservesPositive ==
    /\ IsU64(reserves[1]) /\ ~isZero(reserves[1])
    /\ IsU64(reserves[2]) /\ ~isZero(reserves[2])

\* C30: from a pool with both reserves positive, after any sequence of swaps
\* in either direction, each with amountIn > 0, feeRate <= 2000 and
\* amountOut = getAmountOut(feeRate, amountIn, reserveIn, reserveOut) on the
\* current reserves: the last swap had amountOut < reserveOut, both reserves
\* are positive, and the reserve product is not below its initial value.
C30_PoolKeepsValue ==
    /\ lastSwap # NoSwap
         => /\ lastSwap.outcome.tag = "return"
            /\ IsNat(lastSwap.outcome.val)
            /\ BigLt(lastSwap.outcome.val.m, lastSwap.reserveOut.m)
    /\ ReservesPositive
    /\ BigLe(ProductBefore(initialReserves[1], initialReserves[2]),
             ProductBefore(reserves[1], reserves[2]))

\* The pool (1, U64_MAX) has taken U64_MAX - 1 of X without fee, which
\* leaves (U64_MAX, 1), and has then taken a unit of Y.
C30_Witness ==
    /\ initialReserves = <<BN(1), U64_MAX>>
    /\ swaps = 2
    /\ lastSwap.direction = "YToX"
    /\ lastSwap.reserveIn = BN(1)
    /\ lastSwap.reserveOut = U64_MAX
    /\ lastSwap.outcome.tag = "return"

\* x comes before y in lexicographical order: at the first difference x has
\* the smaller byte, or x is a proper prefix of y.
LexLess(x, y) ==
    \/ /\ Len(x) < Len(y)
       /\ \A j \in 1..Len(x) : x[j] = y[j]
    \/ \E i \in 1..MinOf(Len(x), Len(y)) :
         /\ x[i] < y[i]
         /\ \A j \in 1..(i - 1) : x[j] = y[j]

\* C27 as stated: orderType(typeX, typeY) returns two distinct type names in
\* lexicographical order [smaller, larger], also when their lengths differ.
C27_AsStated ==
    (Done("orderType") /\ args[1] # args[2]) =>
      /\ outcome.tag = "return"
      /\ outcome.val \in {<<args[1], args[2]>>, <<args[2], args[1]>>}
      /\ LexLess(outcome.val[1], outcome.val[2])

\* C26 as stated: after any sequence of init calls, an SDK returned by a call
\* without customRpc was created with its network's default public fullnode
\* URL, and the suiRpc of every SDK's optionsField is still the one the SDK
\* was created with.
C26_AsStated ==
    \A i \in 1..Len(sdks) :
      /\ sdks[i].call.customRpc = Undefined =>
           sdks[i].client.url = getFullnodeUrl(sdks[i].call.network)
      /\ optionsField(sdks[i]).suiRpc = sdks[i].client.url

\* The commands a call has added to the transaction it was given.
AddedCommands(given) == SubSeq(tx, Len(given) + 1, Len(tx))

\* The coins a completed splitCoin has put to use: the target of the merge
\* with its sources, or the coin split when nothing was merged.
CoinsUsed(added) ==
    IF added[1].kind = "MergeCoins"
    THEN <<added[1].destination>> \o added[1].sources
    ELSE <<added[1].coin>>

\* splitCoin's two errors.
NoCoinsError(o) ==
    o.tag = "throw" /\ o.msg = "no ${type} coins available"

NotEnoughError(o) ==
    /\ o.tag = "throw"
    /\ o.msg = "${type} balance is not enough, current total balance:${totalAmount}"

NoMergeOrSplit(added) ==
    \A i \in 1..Len(added) : added[i].kind \notin {"MergeCoins", "SplitCoins"}

\* The property of C25 for a completed splitCoin(owner, type, amount, given)
\* whose getCoins returned the list data.
SplitCoinChecked(amount, given, data) ==
    /\ Len(data) = 0 => NoCoinsError(outcome)
    /\ (Len(data) > 0 /\ isLessThan(TotalOf(data, Len(data)), amount)) =>
         NotEnoughError(outcome)
    /\ (NoCoinsError(outcome) \/ NotEnoughError(outcome)) =>
         NoMergeOrSplit(AddedCommands(given))
    /\ outcome.tag = "return" =>
         \E n \in 1..Len(data) :
           /\ CoinsUsed(AddedCommands(given)) = CoinObjectIds(data, n)
           /\ isGreaterThanOrEqualTo(TotalOf(data, n), amount)

\* C25: splitCoin throws when getCoins returns no coin and when the balances
\* of the coins returned sum to less than amount; when it throws for either
\* reason no merge or split command has been added to tx; when it succeeds
\* the coins merged are a prefix of the returned list whose balances sum to
\* at least amount.
C25_SplitCoinChecksFirst ==
    (Done("splitCoin") /\ rpc[1].response.ok) =>
      SplitCoinChecked(args[3], args[4], rpc[1].response.result.data)

\* C25 witness: splitCoin has merged the first two of three coins, with
\* balances 1 and 2, and split 3 off, after a command that tx held already.
C25_Witness ==
    /\ Done("splitCoin")
    /\ args[3] = BN(3)
    /\ Len(args[4]) = 1
    /\ outcome.tag = "return"
    /\ rpc[1].response.ok
    /\ Len(rpc[1].response.result.data) = 3
    /\ Len(tx) = 3
    /\ tx[2] = MergeCoins(<<"coin", 1>>, << <<"coin", 2>> >>)
    /\ tx[3] = SplitCoins(<<"coin", 1>>, <<BN(3)>>)

SwapBuilders == {"buildSwapExactXToYTx", "buildSwapXToExactYTx"}

\* A swap builder has completed after calling the engine.
SwapPricedBy(f) == Done(f) /\ followUp.fn # ""

\* The balance the pool holds of a coin type, when its types X and Y are
\* the pair poolTypes.
BalanceOf(pool, poolTypes, type) ==
    IF type = poolTypes[1] THEN pool.bal_x ELSE pool.bal_y

\* The Move function of a swap of input type typeX on a pool of poolTypes.
SwapFunction(f, poolTypes, typeX) ==
    IF f = "buildSwapExactXToYTx"
    THEN IF typeX = poolTypes[2] THEN SWAP_EXACT_Y_TO_X ELSE SWAP_EXACT_X_TO_Y
    ELSE IF typeX = poolTypes[2] THEN SWAP_Y_TO_EXACT_X ELSE SWAP_X_TO_EXACT_Y

\* The property of C28 for a completed builder f with parameters p on the
\* pool it was sent, whose types are the pair poolTypes.
SwapOriented(f, p, pool, poolTypes) ==
    /\ poolTypes = orderType(p.typeY, p.typeX).val
    /\ followUp.args[3] = BalanceOf(pool, poolTypes, p.typeX)
    /\ followUp.args[4] = BalanceOf(pool, poolTypes, p.typeY)
    /\ outcome.tag = "return" =>
         /\ tx[Len(tx)].kind = "MoveCall"
         /\ tx[Len(tx)].typeArguments = poolTypes
         /\ tx[Len(tx)].target[3] = SwapFunction(f, poolTypes, p.typeX)

\* C28: in buildSwapExactXToYTx and buildSwapXToExactYTx, for either order
\* of params.typeX and params.typeY, the reserveIn passed to the engine is
\* the pool's balance of params.typeX and reserveOut that of params.typeY,
\* the Move function is the y_to_x variant exactly when params.typeX is the
\* second of the sorted pair, and the type arguments are the sorted pair,
\* where the sorted pair is the one orderType gives.
C28_SwapOrientation ==
    \A f \in SwapBuilders :
      SwapPricedBy(f) =>
        SwapOriented(f, args[2], rpc[1].response.result,
                     orderType(args[2].typeX, args[2].typeY).val)

\* C28 witness: buildSwapXToExactYTx for the types b, a has priced the swap
\* on the reserves (bal_y, bal_x) and built a call of swap_y_to_exact_x with
\* the type arguments a, b.
C28_Witness ==
    /\ SwapPricedBy("buildSwapXToExactYTx")
    /\ args[2].typeX = <<98>>
    /\ args[2].typeY = <<97>>
    /\ outcome.tag = "return"
    /\ followUp.args[3] = rpc[1].response.result.bal_y
    /\ followUp.args[4] = rpc[1].response.result.bal_x
    /\ tx[Len(tx)].target[3] = SWAP_Y_TO_EXACT_X
    /\ tx[Len(tx)].typeArguments = <<(<<97>>), (<<98>>)>>

\* The slippage a caller asks for: the one specified, and the default when
\* none is.
SpecifiedOr(slippage, default) ==
    IF slippage = Undefined THEN default ELSE slippage[1]

Builders ==
    {"buildAddLiquidityTx", "buildRemoveLiquidityTx", "buildSwapExactXToYTx",
     "buildSwapXToExactYTx"}

\* The input coin of a built exact-output swap: the balance asked of
\* coinWithBalance, or the amount split off the owner's coins.
InputCoinAmount(call, before) ==
    IF call.arguments[3].kind = "CoinWithBalance"
    THEN call.arguments[3].balance
    ELSE before.amounts[1]

\* The amounts that builder f has bounded by the slippage, as they are in
\* the transaction built: coinXMin and coinYMin, amountOutMin, amountInMax.
BoundedAmounts(f) ==
    CASE f = "buildAddLiquidityTx" ->
           <<tx[Len(tx)].arguments[4], tx[Len(tx)].arguments[6]>>
      [] f = "buildRemoveLiquidityTx" ->
           <<tx[Len(tx)].arguments[5], tx[Len(tx)].arguments[6]>>
      [] f = "buildSwapExactXToYTx" -> <<tx[Len(tx)].arguments[4]>>
      [] f = "buildSwapXToExactYTx" ->
           <<InputCoinAmount(tx[Len(tx)], tx[Len(tx) - 1])>>

\* The amounts of the engine that builder f has bounded, on the pool it
\* was sent.
EngineAmounts(f, p, pool) ==
    CASE f = "buildAddLiquidityTx" -> followUp.outcome.val
      [] f = "buildRemoveLiquidityTx" ->
           <<followUp.outcome.val,
             mulDiv(pool.bal_y, p.removeLpAmount, pool.lp_supply).val>>
      [] f = "buildSwapExactXToYTx" -> <<followUp.outcome.val>>
      [] f = "buildSwapXToExactYTx" -> <<followUp.outcome.val>>

\* The bound that builder f gives the engine's amount with slippage s.
BoundWith(f, amount, s) ==
    IF f = "buildSwapXToExactYTx" THEN toNumber(MaxWithSlippage(amount, s))
    ELSE MinWithSlippage(amount, s)

AllBoundWith(f, bounded, amounts, s) ==
    \A i \in 1..Len(bounded) : bounded[i] = BoundWith(f, amounts[i], s)

\* The property of C24 for a completed builder f with parameters p.
SlippageApplied(f, p) ==
    /\ (p.slippage # Undefined /\ isGreaterThanOrEqualTo(p.slippage[1], BN(1))) =>
         outcome.tag = "throw" /\ rpc = <<>>
    /\ (outcome.tag = "return" /\ p.slippage # Given(NaN)) =>
         AllBoundWith(f, BoundedAmounts(f),
                      EngineAmounts(f, p, rpc[1].response.result),
                      SpecifiedOr(p.slippage, DEFAULT_SLIPPAGE))

\* C24 as stated: the slippage a builder applies is params.slippage
\* whenever it is specified, 0 included, and 0.05 only when it is not; a
\* specified slippage of 1 or more is rejected before any pool query.
C24_AsStated ==
    \A f \in Builders : Done(f) => SlippageApplied(f, args[2])

\* 1 - s, exact.
ExactOneMinus(s) == minus(BN(1), s)

\* m is floor(amount * (1 - s)).
IsFloorOfProduct(m, amount, s) ==
    m = integerValue(multipliedBy(amount, ExactOneMinus(s)))

\* m is ceil(amount / (1 - s)): the least integer with m * (1 - s) >= amount.
IsCeilOfQuotient(m, amount, s) ==
    /\ isInteger(m)
    /\ isGreaterThanOrEqualTo(multipliedBy(m, ExactOneMinus(s)), amount)
    /\ isLessThan(multipliedBy(minus(m, BN(1)), ExactOneMinus(s)), amount)

IsBoundOf(f, m, amount, s) ==
    IF f = "buildSwapXToExactYTx" THEN IsCeilOfQuotient(m, amount, s)
    ELSE IsFloorOfProduct(m, amount, s)

AllBoundsOf(f, bounded, amounts, s) ==
    \A i \in 1..Len(bounded) : IsBoundOf(f, bounded[i], amounts[i], s)

\* The slippages s in (0, 1) of the model: 0.05, 0.07 and 0.5.
InsideUnit(s) == isGreaterThan(s, BN(0)) /\ isLessThan(s, BN(1))

\* C23 as stated: with a slippage tolerance s in (0, 1), the minimums that
\* the builders put in the transaction are floor(amount * (1 - s)) and the
\* maximum input of the exact-output swap is ceil(amount / (1 - s)), so that
\* amountInMax >= amountIn / (1 - s).
C23_AsStated ==
    \A f \in Builders :
      (/\ Done(f)
       /\ outcome.tag = "return"
       /\ InsideUnit(SlippageOr(args[2].slippage, DEFAULT_SLIPPAGE))) =>
        AllBoundsOf(f, BoundedAmounts(f),
                    EngineAmounts(f, args[2], rpc[1].response.result),
                    SlippageOr(args[2].slippage, DEFAULT_SLIPPAGE))

====
